---- MODULE Spec2Model ----
(***************************************************************************)
(* A model of the grove EPUB reader: the pagination controller used by     *)
(* ReaderContent.svelte, the ReaderContent component (chapter              *)
(* sanitisation under the render token, reading anchor capture/restore),   *)
(* the Reader page (chapter loading) and the table-of-contents resolver    *)
(* of parseEpub.ts.                                                        *)
(*                                                                         *)
(* Widths and offsets are integers in an arbitrary pixel unit.  Strings    *)
(* that the code takes apart (paths, hrefs) are sequences of one-character *)
(* strings; opaque strings are TLA+ strings.                               *)
(***************************************************************************)
EXTENDS Integers, Sequences, FiniteSets, TLC

VARIABLES
    \* ---- paginationController (createPaginationController) ----
    pagination,         \* [pageIndex, pageCount, viewportWidth]
    lastCall,           \* history: the last controller call made directly (SpecPage)
    \* ---- ReaderContent.svelte: props ----
    loading,
    error,
    chapterHtml,
    chapterRenderId,
    showCoverPage,
    currentSpineIndex,
    pendingFragment,    \* 0 for null
    pendingFragmentRequestId,
    isVertical,
    \* ---- ReaderContent.svelte: component state ----
    renderedHtml,
    viewportWidth,
    processingToken,
    lastProcessedId,
    readingAnchor,
    lastFragmentRequestId,
    frags,              \* the invocations of handlePendingFragment, in call order
    runs,               \* the invocations of preprocessChapterHtml, by token
    \* ---- ReaderContent.svelte: the DOM it reads and writes ----
    clientWidth,        \* viewportEl.clientWidth
    trackTransform,     \* the translation written to trackEl.style.transform
    destroyed,
    \* ---- ReaderContent.svelte: history ----
    lastApplied,        \* the assignment of a sanitised document to renderedHtml
                        \* made by the last step, if it made one
    lastRestore,        \* the call of restoreReadingAnchor made by the last step,
                        \* if it made one
    lastFragment,       \* what handlePendingFragment did after its await in the
                        \* last step, if it ran
    \* ---- Reader.svelte ----
    book,               \* per spine index, what the archive holds for it
    hasCover,
    currentIndex,
    loads,              \* the calls of loadChapter, in call order
    \* ---- parseEpub.ts ----
    epub,               \* the archive handed to parseEpub
    toc,                \* the table of contents stored for it
    selected,           \* the spine index the reader resolved a TOC entry to
    \* ---- resolvePath, at import and in the reading session ----
    pathIn,             \* the base path and href handed to resolvePath
    importPath,         \* what parseEpub.ts made of them
    readerPath,         \* what Reader.svelte made of them
    \* ---- preprocessChapterHtml on the elements of one chapter ----
    san,                \* the document, the loop position, the resolver calls
    \* ---- Bookshelf.svelte ----
    shelf,              \* books, loading, error, the store, the imports
    \* ---- ReaderContent.svelte: the node path of the reading anchor ----
    anchorDom,          \* the DOM below the article, the path captured in it
    \* ---- Reader.svelte: object URLs ----
    resources           \* chapterResourceUrls, the URLs not revoked, the calls in flight

pageVars == <<pagination, lastCall>>
fragProps == <<pendingFragment, pendingFragmentRequestId>>
fragState == <<lastFragmentRequestId, frags>>
propVars == <<loading, error, chapterHtml, chapterRenderId, showCoverPage,
              currentSpineIndex, isVertical, fragProps>>
compVars == <<renderedHtml, viewportWidth, processingToken, lastProcessedId,
              readingAnchor, runs, fragState>>
domVars == <<clientWidth, trackTransform, destroyed>>
histVars == <<lastApplied, lastRestore, lastFragment>>
contentVars == <<propVars, compVars, domVars, histVars>>

readerVars == <<book, hasCover, currentIndex, loads>>
pathVars == <<pathIn, importPath, readerPath>>
sanVars == <<san>>
shelfVars == <<shelf>>
anchorVars == <<anchorDom>>
urlVars == <<resources>>
tocVars == <<epub, toc, selected, pathVars, sanVars, shelfVars, anchorVars, urlVars>>

vars == <<pageVars, contentVars, readerVars, tocVars>>

\* ------------------------------------------------------------------ bounds

\* Largest viewport width the environment produces.
MaxViewport == 3
\* Largest content width, page index argument and pixel offset handed to the
\* controller directly.
MaxArg == 7

NULL == "null"

\* readingAnchor = null
NoAnchor == [spineIndex |-> -1, nodePath |-> << >>, charOffset |-> 0, origin |-> 0]

\* No TOC entry selected.
NoSelection == [entry |-> 0, spineIndex |-> -1]

\* No path has been resolved.
NoPath == [done |-> FALSE, path |-> << >>, chapter |-> << >>]

\* No chapter is being sanitised.
NoSanitizer == [pc |-> "idle", next |-> 0, doc |-> << >>, input |-> << >>,
                calls |-> << >>]

\* The bookshelf page is not open.
NoShelf == [books |-> << >>, stored |-> {}, loading |-> FALSE, error |-> NULL,
            listed |-> FALSE, imports |-> << >>]

\* No content is rendered below the article.
NoDom == [dom |-> [kind |-> << >>, parent |-> << >>],
          identical |-> TRUE,
          path |-> << >>, origin |-> -1, captured |-> FALSE, rerendered |-> FALSE,
          last |-> [called |-> FALSE, node |-> -1,
                    before |-> [pageIndex |-> 0, pageCount |-> 1, viewportWidth |-> 0]]]

\* No object URL yet; initReader has not reached loadChapter.
NoResources == [chapterResourceUrls |-> << >>, live |-> {}, created |-> 0,
                chapterBasePath |-> "", hasCover |-> FALSE, initialised |-> FALSE,
                reading |-> 0, resolving |-> 0, destroyed |-> FALSE]

\* No archive.
NoEpub == [basePath |-> << >>, manifest |-> << >>, spine |-> << >>, files |-> {}]

Max(a, b) == IF a >= b THEN a ELSE b
Min(a, b) == IF a <= b THEN a ELSE b

\* ============================================================================
\* paginationController
\* ============================================================================

\* Math.ceil(a / b) for a >= 0, b > 0.
CeilDiv(a, b) == (a + b - 1) \div b

\* Math.floor(a / b) for b > 0 (\div rounds towards minus infinity).
FloorDiv(a, b) == a \div b

\* Clamp an index into [0, pageCount - 1].
ClampIndex(i, count) == Max(0, Min(i, count - 1))

InitialPagination == [pageIndex |-> 0, pageCount |-> 1, viewportWidth |-> 0]

recalcLayoutNoClamp(st, contentWidth, vw) ==
    IF vw <= 0
    THEN [pageIndex |-> 0, pageCount |-> 1, viewportWidth |-> 0]
    ELSE [pageIndex |-> st.pageIndex,
          pageCount |-> Max(1, CeilDiv(Max(contentWidth, vw), vw)),
          viewportWidth |-> vw]

recalcLayoutFloor(st, contentWidth, vw) ==
    IF vw <= 0
    THEN [pageIndex |-> 0, pageCount |-> 1, viewportWidth |-> 0]
    ELSE LET count == Max(1, FloorDiv(Max(contentWidth, vw), vw))
         IN  [pageIndex |-> ClampIndex(st.pageIndex, count),
              pageCount |-> count,
              viewportWidth |-> vw]

recalcLayoutKeepOnZero(st, contentWidth, vw) ==
    IF vw <= 0
    THEN st
    ELSE LET count == Max(1, CeilDiv(Max(contentWidth, vw), vw))
         IN  [pageIndex |-> ClampIndex(st.pageIndex, count),
              pageCount |-> count,
              viewportWidth |-> vw]

recalcLayout(st, contentWidth, vw) ==
    IF vw <= 0
    THEN [pageIndex |-> 0, pageCount |-> 1, viewportWidth |-> 0]
    ELSE LET count == Max(1, CeilDiv(Max(contentWidth, vw), vw))
         IN  [pageIndex |-> ClampIndex(st.pageIndex, count),
              pageCount |-> count,
              viewportWidth |-> vw]

nextPage(st) == [st EXCEPT !.pageIndex = ClampIndex(st.pageIndex + 1, st.pageCount)]

prevPage(st) == [st EXCEPT !.pageIndex = ClampIndex(st.pageIndex - 1, st.pageCount)]

\* setPage that leaves the page where it is.
setPageKeepsPage(st, index) == st

setPage(st, index) == [st EXCEPT !.pageIndex = ClampIndex(index, st.pageCount)]

\* setPageByOffset rounding the quotient up.
setPageByOffsetCeil(st, pixelOffset) ==
    IF st.viewportWidth <= 0
    THEN [st EXCEPT !.pageIndex = ClampIndex(0, st.pageCount)]
    ELSE [st EXCEPT !.pageIndex =
              ClampIndex(-FloorDiv(-pixelOffset, st.viewportWidth), st.pageCount)]

\* floor(pixelOffset / viewportWidth), clamped.  With viewportWidth = 0 the
\* quotient is not a finite number; pageCount is 1 then, and the clamp
\* leaves page 0.
setPageByOffset(st, pixelOffset) ==
    IF st.viewportWidth <= 0
    THEN [st EXCEPT !.pageIndex = ClampIndex(0, st.pageCount)]
    ELSE [st EXCEPT !.pageIndex =
              ClampIndex(FloorDiv(pixelOffset, st.viewportWidth), st.pageCount)]

\* The horizontal translation of getTransform(), as the positive offset that
\* is negated in the CSS translate.
getTransformOffset(st) == st.pageIndex * st.viewportWidth

\* ============================================================================
\* The chapters the parent hands to ReaderContent, and the DOM the browser
\* builds from them
\* ============================================================================

\* Cap on chapterRenderId (the parent's counter is unbounded).
MaxRenders == 2
\* Layout: width of a paragraph and of an image, in content space.
ParaWidth == 2
ImgWidth == 1

\* The chapters of the book: chapter 1 is text only, chapter 2 has relative
\* images.  chapterHtml is 0 ('') or the html of a chapter.
Chapters == {1, 2}

\* The spine index the parent shows chapter c at.
SpineOf(c) == c - 1

\* Relative <img src> elements of chapter c: odd chapters have none (their
\* sanitisation never suspends), even chapters have two.
NumImgs(c) == 2 * ((c + 1) % 2)

\* Paragraphs of chapter c.
NumParas(c) == 2 + (c % 2)

\* The children of the chapter's body, in document order: paragraphs with
\* an image after each of the first paragraphs: p img p img p p ...
ChapterNodes(c) ==
    [j \in 1 .. (NumParas(c) + NumImgs(c)) |->
        IF j % 2 = 0 /\ (j \div 2) <= NumImgs(c) THEN "rel" ELSE "p"]

\* A parsed document: the chapter and the state of each body child:
\* "p" a paragraph, "rel" an image with a relative src, "url" an image whose
\* src was rewritten, "removed" an image taken out of the tree.
EmptyDoc == [chapter |-> 0, st |-> << >>]

\* new DOMParser().parseFromString(chapterHtml, 'text/html')
ParseHtml(c) == IF c = 0 THEN EmptyDoc ELSE [chapter |-> c, st |-> ChapterNodes(c)]

\* {@html renderedHtml}: the child nodes of the article element.
RECURSIVE Rendered(_)
Rendered(st) ==
    IF st = << >> THEN << >>
    ELSE IF Head(st) = "removed" THEN Rendered(Tail(st))
    ELSE <<Head(st)>> \o Rendered(Tail(st))

NodeWidth(kind) == IF kind = "p" THEN ParaWidth ELSE ImgWidth

RECURSIVE SumWidths(_, _)
SumWidths(nodes, n) ==
    IF n = 0 THEN 0 ELSE SumWidths(nodes, n - 1) + NodeWidth(nodes[n])

\* articleEl.scrollWidth
ScrollWidth(doc) == SumWidths(Rendered(doc.st), Len(Rendered(doc.st)))

\* Left edge, in content space, of the first character of the text node at
\* child index k (0-based) of the article.
ContentLeft(doc, k) == SumWidths(Rendered(doc.st), k)

\* Array.prototype.indexOf path from the article to the text node of the
\* paragraph at child index k: the paragraph's index, then its only child.
buildNodePath(doc, k) == <<k, 0>>

\* Walks childNodes[index] from the article; the child index of the paragraph
\* whose text node the path leads to, or -1 (null) if a step has no such
\* child or the node reached is no Text.
resolveNodePath(doc, path) ==
    LET nodes == Rendered(doc.st)
    IN  IF Len(path) = 2 /\ path[1] >= 0 /\ path[1] < Len(nodes)
           /\ nodes[path[1] + 1] = "p" /\ path[2] = 0
        THEN path[1]
        ELSE -1

\* ============================================================================
\* ReaderContent.svelte
\* ============================================================================

NoError == NULL

\* Which branch of the template is rendered: the article exists only in the
\* last two; viewportEl and trackEl only in the vertical one.  The parent sets
\* coverPageUrl whenever it sets showCoverPage.
TemplateBranch(l, e, cover, vertical, gone) ==
    IF gone THEN "none"
    ELSE IF l THEN "loading"
    ELSE IF e # NoError THEN "error"
    ELSE IF cover THEN "cover"
    ELSE IF vertical THEN "vertical"
    ELSE "article"

Branch == TemplateBranch(loading, error, showCoverPage, isVertical, destroyed)

ArticleMounted == Branch \in {"vertical", "article"}
ViewportMounted == Branch = "vertical"

\* syncViewportWidth
syncViewportWidth(st) == st.viewportWidth

\* measureLayout: the pagination state it leaves.
measureLayout(st) ==
    IF ~isVertical \/ ~ViewportMounted \/ ~ArticleMounted
    THEN recalcLayout(st, 0, 0)
    ELSE recalcLayout(st, Max(ScrollWidth(renderedHtml), clientWidth), clientWidth)

\* getBoundingClientRect().left of the article and of the first character of
\* the text node at child k, with translation tt on trackEl: both lie inside
\* trackEl, so both are shifted by it.  The viewport's own box is
\* [0, clientWidth].
ArticleRectLeft(tt) == 0 - tt
MarkerRectLeft(k, tt) == ContentLeft(renderedHtml, k) - tt

\* restoreReadingAnchor: the child index of the text node it measures, or -1
\* when one of its guards returns.
RestoreTarget ==
    IF ~isVertical \/ ~ArticleMounted \/ readingAnchor = NoAnchor THEN -1
    ELSE IF readingAnchor.spineIndex # currentSpineIndex THEN -1
    ELSE resolveNodePath(renderedHtml, readingAnchor.nodePath)

restoreReadingAnchorNoSpineCheck(st) ==
    LET k == IF ~isVertical \/ ~ArticleMounted \/ readingAnchor = NoAnchor THEN -1
             ELSE resolveNodePath(renderedHtml, readingAnchor.nodePath)
    IN  IF k < 0 THEN st
        ELSE setPageByOffset(st, MarkerRectLeft(k, trackTransform)
                                    - ArticleRectLeft(trackTransform)
                                    + st.pageIndex * st.viewportWidth)

\* restoreReadingAnchor: the pagination state it leaves.
restoreReadingAnchor(st) ==
    LET k == RestoreTarget
    IN  IF k < 0 THEN st
        ELSE LET currentOffset == st.pageIndex * st.viewportWidth
                 absoluteOffset == MarkerRectLeft(k, trackTransform)
                                     - ArticleRectLeft(trackTransform) + currentOffset
             IN  setPageByOffset(st, absoluteOffset)

\* applyTransform: the translation on trackEl afterwards.
applyTransform(st) ==
    IF ~isVertical \/ ~ViewportMounted THEN trackTransform
    ELSE getTransformOffset(st)

\* Width of the box of one character.
CharWidth == 1

\* rect.right >= viewportRect.left && rect.left <= viewportRect.right
Visible(k, tt) ==
    /\ MarkerRectLeft(k, tt) + CharWidth >= 0
    /\ MarkerRectLeft(k, tt) <= clientWidth

TextChildren == {k \in 0 .. (Len(Rendered(renderedHtml.st)) - 1) :
                    Rendered(renderedHtml.st)[k + 1] = "p"}

\* captureReadingAnchor: the anchor it leaves: the first text node, in
\* document order, whose first character meets the viewport's horizontal
\* band.  origin is history: the chapter whose content the path was built in.
captureReadingAnchor(tt) ==
    IF ~isVertical \/ ~ArticleMounted \/ ~ViewportMounted THEN readingAnchor
    ELSE LET hits == {k \in TextChildren : Visible(k, tt)}
         IN  IF hits = {} THEN readingAnchor
             ELSE LET k == CHOOSE x \in hits : \A y \in hits : x <= y
                  IN  [spineIndex |-> currentSpineIndex,
                       nodePath |-> buildNodePath(renderedHtml, k),
                       charOffset |-> 0,
                       origin |-> renderedHtml.chapter]

\* ---- history ----

\* No call of restoreReadingAnchor in the last step.
NoRestore == [called |-> FALSE, anchor |-> NoAnchor, spineIndex |-> 0,
              before |-> InitialPagination, after |-> InitialPagination,
              target |-> -1, rendered |-> EmptyDoc]

\* No direct controller call yet.
NoCall == [op |-> "none", a |-> 0, b |-> 0, before |-> InitialPagination]

\* The invocation with `token` assigned a document (of `chapter`, 0 for '')
\* to renderedHtml while processingToken was `latest`.
Applied(token, latest, chapter) ==
    [valid |-> TRUE, token |-> token, latest |-> latest, chapter |-> chapter]

NoApplied == [valid |-> FALSE, token |-> 0, latest |-> 0, chapter |-> 0]

\* No continuation of handlePendingFragment in the last step.
NoFragmentRun == [called |-> FALSE, startedFor |-> 0, fragment |-> 0, target |-> -1,
                  jumped |-> FALSE, signalled |-> FALSE]

ResetHistory ==
    lastApplied' = NoApplied /\ lastRestore' = NoRestore /\ lastFragment' = NoFragmentRun

\* ---- preprocessChapterHtml ----

\* An invocation past its asset loop keeps no document: "measure" (suspended in
\* measureLayoutRestoreAnchorAndApply), "done" (returned), "discarded"
\* (returned at the token check), "rejected" (ended by an exception).
RunAt(pc) == [pc |-> pc, doc |-> EmptyDoc, next |-> 0]

\* The next <img src> at or after position from whose src is relative, or 0.
NextRel(doc, from) ==
    LET c == {j \in from .. Len(doc.st) : doc.st[j] = "rel"}
    IN  IF c = {} THEN 0 ELSE CHOOSE j \in c : \A i \in c : j <= i

\* Line 492 without the comparison: the result is applied whatever the token.
TokenIsLatestAlways(token, latest) == TRUE

\* if (token !== processingToken) return;
TokenIsLatest(token, latest) == token = latest

\* The invocation with `token`, its asset loop at position `from` of `doc`:
\* it suspends at the next relative image, or leaves the loop, compares its
\* token with `latest` and either returns or assigns renderedHtml and
\* suspends in measureLayoutRestoreAnchorAndApply.
\* Result: the run's record, and the document it assigns to renderedHtml, if
\* it assigns one.
AfterLoop(token, latest, doc, from) ==
    LET j == NextRel(doc, from)
    IN  IF j > 0
        THEN [run |-> [pc |-> "img", doc |-> doc, next |-> j],
              assign |-> EmptyDoc, assigns |-> FALSE]
        ELSE IF ~TokenIsLatest(token, latest)
        THEN [run |-> RunAt("discarded"), assign |-> EmptyDoc, assigns |-> FALSE]
        ELSE [run |-> RunAt("measure"), assign |-> doc, assigns |-> TRUE]

\* The token taken without incrementing processingToken.
NextTokenReused(latest) == latest

\* const token = ++processingToken
NextToken(latest) == latest + 1

\* preprocessChapterHtml up to its first suspension, with the props as they
\* are after the parent's update.
StartRun(token, cover, html, err) ==
    IF cover
    THEN [run |-> RunAt("done"), assign |-> EmptyDoc, assigns |-> TRUE]
    ELSE IF html = 0 \/ err # NoError
    THEN [run |-> RunAt("done"), assign |-> ParseHtml(html), assigns |-> TRUE]
    ELSE AfterLoop(token, token, ParseHtml(html), 1)

\* The reactive block on chapterRenderId and everything it calls, after the
\* parent set the (primed) props; then the DOM update.
ContentFlush ==
    /\ trackTransform' =
          IF TemplateBranch(loading', error', showCoverPage', isVertical', destroyed)
                = Branch
          THEN trackTransform ELSE 0
    /\ IF chapterRenderId' # lastProcessedId
       THEN LET token == NextToken(processingToken)
                r == StartRun(token, showCoverPage',
                              chapterHtml', error')
            IN  /\ lastProcessedId' = chapterRenderId'
                /\ readingAnchor' = NoAnchor
                /\ pagination' = setPage(pagination, 0)
                /\ viewportWidth' = syncViewportWidth(pagination')
                /\ processingToken' = token
                /\ runs' = Append(runs, r.run)
                /\ renderedHtml' = IF r.assigns THEN r.assign ELSE renderedHtml
                /\ lastApplied' = IF r.assigns
                                  THEN Applied(token, token, r.assign.chapter)
                                  ELSE NoApplied
       ELSE /\ UNCHANGED <<renderedHtml, viewportWidth, processingToken,
                           lastProcessedId, readingAnchor, runs, pagination>>
            /\ lastApplied' = NoApplied
    /\ IF /\ ~loading' /\ error' = NoError /\ pendingFragment' # 0
          /\ pendingFragmentRequestId' # lastFragmentRequestId
       THEN /\ lastFragmentRequestId' = pendingFragmentRequestId'
            /\ frags' = Append(frags, [pc |-> "tick",
                                       requestId |-> pendingFragmentRequestId'])
       ELSE UNCHANGED fragState
    /\ lastRestore' = NoRestore
    /\ lastFragment' = NoFragmentRun
    /\ UNCHANGED <<clientWidth, destroyed, lastCall, tocVars>>

\* ---- the parent's updates of the props ----

\* loading = true; error = null  (a chapter load begins)
ParentLoading ==
    /\ ~destroyed
    /\ ~loading
    /\ loading' = TRUE
    /\ error' = NoError
    /\ UNCHANGED <<readerVars, chapterHtml, chapterRenderId, showCoverPage, currentSpineIndex,
                   isVertical, fragProps>>
    /\ ContentFlush

\* A chapter's html arrives: chapterHtml, the spine index and a new
\* chapterRenderId are set together, and loading ends.
ParentChapter(c) ==
    /\ ~destroyed
    /\ chapterRenderId < MaxRenders
    /\ chapterHtml' = c
    /\ showCoverPage' = FALSE
    /\ currentSpineIndex' = SpineOf(c)
    /\ chapterRenderId' = chapterRenderId + 1
    /\ loading' = FALSE
    /\ UNCHANGED <<readerVars, error, isVertical, fragProps>>
    /\ ContentFlush

\* The cover page is shown.
ParentCover ==
    /\ ~destroyed
    /\ chapterRenderId < MaxRenders
    /\ chapterHtml' = 0
    /\ showCoverPage' = TRUE
    /\ chapterRenderId' = chapterRenderId + 1
    /\ loading' = FALSE
    /\ UNCHANGED <<readerVars, error, currentSpineIndex, isVertical, fragProps>>
    /\ ContentFlush

\* A chapter load fails.
ParentError ==
    /\ ~destroyed
    /\ error = NoError
    /\ error' = "error"
    /\ loading' = FALSE
    /\ UNCHANGED <<readerVars, chapterHtml, chapterRenderId, showCoverPage, currentSpineIndex,
                   isVertical, fragProps>>
    /\ ContentFlush

\* The parent changes currentSpineIndex alone.
ParentSpineIndex(s) ==
    /\ ~destroyed
    /\ s # currentSpineIndex
    /\ currentSpineIndex' = s
    /\ UNCHANGED <<readerVars, loading, error, chapterHtml, chapterRenderId, showCoverPage,
                   isVertical, fragProps>>
    /\ ContentFlush

\* ---- the component's own steps ----

\* resolveAssetUrl settles for the image invocation t waits on: with a URL
\* (the src is rewritten) or with null (the image is removed); the loop goes
\* on to its next suspension or to the token check.
AssetResolved(t, ok) ==
    /\ runs[t].pc = "img"
    /\ LET run == runs[t]
           doc2 == [run.doc EXCEPT !.st[run.next] = IF ok THEN "url" ELSE "removed"]
           r == AfterLoop(t, processingToken, doc2, run.next + 1)
       IN  /\ runs' = [runs EXCEPT ![t] = r.run]
           /\ renderedHtml' = IF r.assigns THEN r.assign ELSE renderedHtml
           /\ lastApplied' = IF r.assigns
                             THEN Applied(t, processingToken, r.assign.chapter)
                             ELSE NoApplied
    /\ lastRestore' = NoRestore
    /\ lastFragment' = NoFragmentRun
    /\ UNCHANGED <<readerVars, tocVars, propVars, pageVars, viewportWidth, processingToken, fragState,
                   lastProcessedId, readingAnchor, domVars>>

\* The promise of resolveAssetUrl rejects (the archive entry cannot be
\* read): the await at line 466 throws, nothing catches it, and the
\* invocation ends without reaching the token check.
AssetRejected(t) ==
    /\ runs[t].pc = "img"
    /\ runs' = [runs EXCEPT ![t] = RunAt("rejected")]
    /\ ResetHistory
    /\ UNCHANGED <<readerVars, tocVars, propVars, pageVars, renderedHtml, viewportWidth,
                   processingToken, fragState, lastProcessedId, readingAnchor, domVars>>

\* measureLayoutRestoreAnchorAndApply after its two awaits (tick, then the
\* animation frame; nothing of the component runs between them):
\* measureLayout(); restoreReadingAnchor(); applyTransform().
MeasureDone(t) ==
    /\ runs[t].pc = "measure"
    /\ LET measured == measureLayout(pagination)
           restored == restoreReadingAnchor(measured)
       IN  /\ pagination' = restored
           /\ viewportWidth' = syncViewportWidth(measured)
           /\ trackTransform' = applyTransform(restored)
           /\ lastRestore' = [called |-> TRUE,
                              anchor |-> readingAnchor,
                              spineIndex |-> currentSpineIndex,
                              before |-> measured,
                              after |-> restored,
                              target |-> RestoreTarget,
                              rendered |-> renderedHtml]
    /\ runs' = [runs EXCEPT ![t] = RunAt("done")]
    /\ lastApplied' = NoApplied
    /\ lastFragment' = NoFragmentRun
    /\ UNCHANGED <<readerVars, tocVars, propVars, lastCall, renderedHtml, processingToken, fragState,
                   lastProcessedId, readingAnchor, clientWidth, destroyed>>

\* handleWheel with deltaY of sign d, in vertical mode (otherwise it returns
\* at once): page step, applyTransform(), captureReadingAnchor().
handleWheel(d) ==
    /\ ~destroyed
    /\ isVertical
    /\ LET st == IF d > 0 THEN nextPage(pagination)
                 ELSE IF d < 0 THEN prevPage(pagination)
                 ELSE pagination
           tt == applyTransform(st)
       IN  /\ pagination' = st
           /\ trackTransform' = tt
           /\ readingAnchor' = captureReadingAnchor(tt)
    /\ ResetHistory
    /\ UNCHANGED <<readerVars, tocVars, propVars, lastCall, renderedHtml, viewportWidth, processingToken, fragState,
                   lastProcessedId, runs, clientWidth, destroyed>>

\* The browser lays the viewport out at another width.
ViewportWidths == (MaxViewport - 1) .. MaxViewport

Resize(w) ==
    /\ ~destroyed
    /\ w # clientWidth
    /\ clientWidth' = w
    /\ ResetHistory
    /\ UNCHANGED <<readerVars, tocVars, propVars, pageVars, compVars, trackTransform, destroyed>>

\* syncVerticalEngine's shouldActivate.
ShouldActivate == isVertical /\ ~loading /\ error = NoError /\ ~showCoverPage

\* activateVerticalEngine, called with the engine inactive: whether it is
\* active afterwards (it returns at once without viewportEl and articleEl).
activateVerticalEngine(viewportBound, articleBound) == viewportBound /\ articleBound

\* syncVerticalEngine: whether the engine is active afterwards.
syncVerticalEngine(shouldActivate, active, viewportBound, articleBound) ==
    IF shouldActivate /\ ~active THEN activateVerticalEngine(viewportBound, articleBound)
    ELSE IF ~shouldActivate /\ active THEN FALSE
    ELSE active

\* verticalEngineActive.  `$: syncVerticalEngine()` names no variable of the
\* component, so it runs once, while the component is constructed and no
\* element is bound yet; nothing else calls it.  The engine is inactive from
\* then on, no ResizeObserver is created, and
\* scheduleMeasureLayoutRestoreAnchorAndApply is never called.
verticalEngineActive == syncVerticalEngine(ShouldActivate, FALSE, FALSE, FALSE)

\* deactivateVerticalEngine: the pagination state it leaves.
deactivateVerticalEngine(st) == setPage(recalcLayout(st, 0, 0), 0)

\* onDestroy: deactivateVerticalEngine(); the elements are gone afterwards.
Destroy ==
    /\ ~destroyed
    /\ destroyed' = TRUE
    /\ pagination' = deactivateVerticalEngine(pagination)
    /\ viewportWidth' = syncViewportWidth(pagination')
    /\ trackTransform' = 0
    /\ readingAnchor' = NoAnchor
    /\ ResetHistory
    /\ UNCHANGED <<readerVars, tocVars, propVars, lastCall, renderedHtml, processingToken, fragState,
                   lastProcessedId, runs, clientWidth>>

\* The component after construction with the given props: the reactive block
\* has run once for chapterRenderId 0 (token 1, nothing to sanitise).
ConstructContent ==
    /\ error = NoError
    /\ chapterHtml = 0
    /\ chapterRenderId = 0
    /\ showCoverPage = FALSE
    /\ currentSpineIndex = 0
    /\ pendingFragment = 0
    /\ pendingFragmentRequestId = 0
    /\ lastFragmentRequestId = -1
    /\ frags = << >>
    /\ lastFragment = NoFragmentRun
    /\ renderedHtml = EmptyDoc
    /\ viewportWidth = 0
    /\ processingToken = 1
    /\ lastProcessedId = 0
    /\ readingAnchor = NoAnchor
    /\ runs = <<RunAt("done")>>
    /\ trackTransform = 0
    /\ destroyed = FALSE
    /\ lastApplied = NoApplied
    /\ lastRestore = NoRestore

\* No book is open in the Reader page.
NoBook ==
    /\ book = << >>
    /\ hasCover = FALSE
    /\ currentIndex = 0
    /\ loads = << >>

\* No archive is being imported.
NoImport ==
    /\ epub = NoEpub
    /\ toc = [parsed |-> FALSE, items |-> << >>]
    /\ selected = NoSelection
    /\ pathIn = [basePath |-> << >>, href |-> << >>]
    /\ importPath = NoPath
    /\ readerPath = NoPath
    /\ san = NoSanitizer
    /\ shelf = NoShelf
    /\ anchorDom = NoDom
    /\ resources = NoResources

InitContent ==
    /\ NoBook
    /\ NoImport
    /\ pagination = InitialPagination
    /\ lastCall = NoCall
    /\ loading = FALSE
    /\ isVertical \in BOOLEAN
    /\ clientWidth \in ViewportWidths
    /\ ConstructContent

NextContent ==
    \/ ParentLoading
    \/ \E c \in Chapters : ParentChapter(c)
    \/ ParentCover
    \/ ParentError
    \/ \E c \in Chapters : ParentSpineIndex(SpineOf(c))
    \/ \E t \in DOMAIN runs : \E ok \in BOOLEAN : AssetResolved(t, ok)
    \/ \E t \in DOMAIN runs : AssetRejected(t)
    \/ \E t \in DOMAIN runs : MeasureDone(t)
    \/ \E d \in {-1, 0, 1} : handleWheel(d)
    \/ \E w \in ViewportWidths : Resize(w)
    \/ Destroy

SpecContent == InitContent /\ [][NextContent]_vars

\* The component with its scheduling: a pass waiting for tick and the
\* animation frame resumes, and the resolver, a function of the parent that
\* reads the archive in memory, settles.  The parent's updates, the reader's
\* input and the resizes of the window need not happen.
SpecContentFair ==
    /\ SpecContent
    /\ WF_vars(\E t \in DOMAIN runs : MeasureDone(t))
    /\ WF_vars(\E t \in DOMAIN runs : \E ok \in BOOLEAN : AssetResolved(t, ok))

\* ============================================================================
\* The pagination controller on its own, called with arbitrary arguments
\* ============================================================================

CallRecalcLayout(cw, vw) ==
    /\ pagination' = recalcLayout(pagination, cw, vw)
    /\ lastCall' = [op |-> "recalcLayout", a |-> cw, b |-> vw, before |-> pagination]
    /\ UNCHANGED <<contentVars, readerVars, tocVars>>

CallNextPage ==
    /\ pagination' = nextPage(pagination)
    /\ lastCall' = [op |-> "nextPage", a |-> 0, b |-> 0, before |-> pagination]
    /\ UNCHANGED <<contentVars, readerVars, tocVars>>

CallPrevPage ==
    /\ pagination' = prevPage(pagination)
    /\ lastCall' = [op |-> "prevPage", a |-> 0, b |-> 0, before |-> pagination]
    /\ UNCHANGED <<contentVars, readerVars, tocVars>>

CallSetPage(i) ==
    /\ pagination' = setPage(pagination, i)
    /\ lastCall' = [op |-> "setPage", a |-> i, b |-> 0, before |-> pagination]
    /\ UNCHANGED <<contentVars, readerVars, tocVars>>

CallSetPageByOffset(x) ==
    /\ pagination' = setPageByOffset(pagination, x)
    /\ lastCall' = [op |-> "setPageByOffset", a |-> x, b |-> 0, before |-> pagination]
    /\ UNCHANGED <<contentVars, readerVars, tocVars>>

InitPage ==
    /\ NoBook
    /\ NoImport
    /\ pagination = InitialPagination
    /\ lastCall = NoCall
    /\ loading = FALSE
    /\ isVertical = FALSE
    /\ clientWidth = 0
    /\ ConstructContent

NextPage ==
    \/ \E cw \in -1 .. MaxArg : \E vw \in -1 .. MaxViewport : CallRecalcLayout(cw, vw)
    \/ CallNextPage
    \/ CallPrevPage
    \/ \E i \in -1 .. MaxArg : CallSetPage(i)
    \/ \E x \in -2 .. (MaxArg + 2) : CallSetPageByOffset(x)

SpecPage == InitPage /\ [][NextPage]_vars

\* ============================================================================
\* Reader.svelte: the page that loads chapters and hands them to
\* ReaderContent.  It passes neither isVertical nor currentSpineIndex, which
\* keep their defaults.
\* ============================================================================

\* Cap on the calls of loadChapter.
MaxLoads == 3

\* book.spine: one item per chapter; spine index s holds chapter s + 1.
SpineIndices == {SpineOf(c) : c \in Chapters}
ChapterOfSpine(s) == CHOOSE c \in Chapters : SpineOf(c) = s

\* What the archive holds for each spine item, by spine index + 1:
\* "ok" (a manifest item and its file), "nometa" (no manifest item for the
\* idref), "nofile" (a manifest item whose file is not in the archive).
BookShapes == [1 .. Cardinality(Chapters) -> {"ok", "nometa", "nofile"}]

getLastReaderIndex == Len(book) - 1 + (IF hasCover THEN 1 ELSE 0)

\* getChapterPath(book, chapterIndex) returns null.
ChapterPathMissing(chapterIndex) ==
    \/ chapterIndex < 0
    \/ chapterIndex >= Len(book)
    \/ book[chapterIndex + 1] = "nometa"

\* loadChapter with currentIndex assigned before the archive entry is looked
\* up: a load that fails has already moved the reader index.
LoadStartEarlyIndex(index) ==
    LET spineIndex == IF hasCover THEN index - 1 ELSE index
        keep == [loading |-> loading, error |-> error, chapterHtml |-> chapterHtml,
                 showCoverPage |-> showCoverPage, currentIndex |-> currentIndex,
                 chapterRenderId |-> chapterRenderId, st |-> "failed"]
    IN  IF hasCover /\ index = 0
        THEN [keep EXCEPT !.loading = FALSE, !.error = NoError,
                          !.showCoverPage = TRUE, !.chapterHtml = 0,
                          !.currentIndex = 0, !.chapterRenderId = @ + 1,
                          !.st = "applied"]
        ELSE IF ChapterPathMissing(spineIndex)
        THEN [keep EXCEPT !.error = "Chapter metadata is missing."]
        ELSE IF book[spineIndex + 1] = "nofile"
        THEN [keep EXCEPT !.loading = FALSE, !.currentIndex = index,
                          !.error = "Chapter file not found in EPUB archive."]
        ELSE [keep EXCEPT !.loading = TRUE, !.error = NoError, !.st = "reading"]

\* loadChapter(index) up to its await or return: the values it leaves and
\* what became of the call: "applied" (the cover page is shown), "failed"
\* (it returned with an error) or "reading" (suspended reading the file).
\* hasCover is only true for a book with a coverBlob, so line 67 never
\* returns.
LoadStart(index) ==
    LET spineIndex == IF hasCover THEN index - 1 ELSE index
        keep == [loading |-> loading, error |-> error, chapterHtml |-> chapterHtml,
                 showCoverPage |-> showCoverPage, currentIndex |-> currentIndex,
                 chapterRenderId |-> chapterRenderId, st |-> "failed"]
    IN  IF hasCover /\ index = 0
        THEN [keep EXCEPT !.loading = FALSE, !.error = NoError,
                          !.showCoverPage = TRUE, !.chapterHtml = 0,
                          !.currentIndex = 0, !.chapterRenderId = @ + 1,
                          !.st = "applied"]
        ELSE IF ChapterPathMissing(spineIndex)
        THEN [keep EXCEPT !.error = "Chapter metadata is missing."]
        ELSE IF book[spineIndex + 1] = "nofile"
        THEN [keep EXCEPT !.loading = FALSE,
                          !.error = "Chapter file not found in EPUB archive."]
        ELSE [keep EXCEPT !.loading = TRUE, !.error = NoError, !.st = "reading"]

\* The synchronous part of a call of loadChapter with outcome r, and the
\* update of ReaderContent that follows it.
StartLoad(index, r) ==
    /\ Len(loads) < MaxLoads
    /\ r.chapterRenderId <= MaxRenders
    /\ loading' = r.loading
    /\ error' = r.error
    /\ chapterHtml' = r.chapterHtml
    /\ showCoverPage' = r.showCoverPage
    /\ currentIndex' = r.currentIndex
    /\ chapterRenderId' = r.chapterRenderId
    /\ loads' = Append(loads, [index |-> index, st |-> r.st])
    /\ UNCHANGED <<book, hasCover, currentSpineIndex, isVertical, fragProps>>
    /\ ContentFlush

\* loadChapter(index), once initReader has opened the archive.
loadChapter(index) ==
    /\ loads # << >>
    /\ StartLoad(index, LoadStart(index))

\* initReader: opens the book and the archive, then loads the initial
\* chapter: index 0 with a cover, else the spine index i of the first TOC
\* entry.  Its finally clause ends loading when loadChapter has returned.
initReader(i) ==
    /\ loads = << >>
    /\ LET index == IF hasCover THEN 0 ELSE i
           r == LoadStart(index)
       IN  StartLoad(index, IF r.st = "reading" THEN r ELSE [r EXCEPT !.loading = FALSE])

prevChapter ==
    /\ currentIndex > 0
    /\ loadChapter(currentIndex - 1)

nextChapter ==
    /\ currentIndex < getLastReaderIndex
    /\ loadChapter(currentIndex + 1)

\* onSelectToc(tocHref), with spineIndex the index the href resolves to.
onSelectToc(spineIndex) ==
    loadChapter(IF hasCover THEN spineIndex + 1 ELSE spineIndex)

\* ChapterRead with the spine index, not the reader index, assigned to
\* currentIndex.
ChapterReadSpineIndex(n) ==
    /\ loads[n].st = "reading"
    /\ chapterRenderId < MaxRenders
    /\ chapterHtml' = ChapterOfSpine(IF hasCover THEN loads[n].index - 1
                                     ELSE loads[n].index)
    /\ showCoverPage' = FALSE
    /\ currentIndex' = IF hasCover THEN loads[n].index - 1 ELSE loads[n].index
    /\ chapterRenderId' = chapterRenderId + 1
    /\ loading' = FALSE
    /\ loads' = [loads EXCEPT ![n].st = "applied"]
    /\ UNCHANGED <<book, hasCover, error, currentSpineIndex, isVertical, fragProps>>
    /\ ContentFlush

\* chapterFile.async('string') of call n resolves: lines 103-110 and the
\* finally clause.
ChapterRead(n) ==
    /\ loads[n].st = "reading"
    /\ chapterRenderId < MaxRenders
    /\ chapterHtml' = ChapterOfSpine(IF hasCover THEN loads[n].index - 1
                                     ELSE loads[n].index)
    /\ showCoverPage' = FALSE
    /\ currentIndex' = loads[n].index
    /\ chapterRenderId' = chapterRenderId + 1
    /\ loading' = FALSE
    /\ loads' = [loads EXCEPT ![n].st = "applied"]
    /\ UNCHANGED <<book, hasCover, error, currentSpineIndex, isVertical, fragProps>>
    /\ ContentFlush

\* chapterFile.async('string') of call n rejects: the catch and finally
\* clauses.
ChapterReadFails(n) ==
    /\ loads[n].st = "reading"
    /\ error' = "Failed to load chapter content."
    /\ loading' = FALSE
    /\ loads' = [loads EXCEPT ![n].st = "failed"]
    /\ UNCHANGED <<book, hasCover, currentIndex, chapterHtml, chapterRenderId,
                   showCoverPage, currentSpineIndex, isVertical, fragProps>>
    /\ ContentFlush

InitReaderPage ==
    /\ book \in BookShapes
    /\ hasCover \in BOOLEAN
    /\ currentIndex = 0
    /\ loads = << >>
    /\ NoImport
    /\ pagination = InitialPagination
    /\ lastCall = NoCall
    /\ loading = TRUE
    /\ isVertical = FALSE
    /\ clientWidth = MaxViewport
    /\ ConstructContent

NextReader ==
    \/ \E i \in SpineIndices : initReader(i)
    \/ prevChapter
    \/ nextChapter
    \/ \E s \in SpineIndices : onSelectToc(s)
    \/ \E n \in DOMAIN loads : ChapterRead(n)
    \/ \E n \in DOMAIN loads : ChapterReadFails(n)
    \/ \E t \in DOMAIN runs : \E ok \in BOOLEAN : AssetResolved(t, ok)
    \/ \E t \in DOMAIN runs : MeasureDone(t)

SpecReader == InitReaderPage /\ [][NextReader]_vars

\* ============================================================================
\* parseEpub.ts: the table of contents of an imported archive
\* ============================================================================

\* ---- strings the code takes apart: sequences of one-character strings ----

\* s.indexOf(ch) + 1 and s.lastIndexOf(ch) + 1: 0 when ch does not occur.
IndexOf(s, ch) ==
    IF \E i \in 1 .. Len(s) : s[i] = ch
    THEN CHOOSE i \in 1 .. Len(s) : s[i] = ch /\ \A j \in 1 .. (i - 1) : s[j] # ch
    ELSE 0

LastIndexOf(s, ch) ==
    IF \E i \in 1 .. Len(s) : s[i] = ch
    THEN CHOOSE i \in 1 .. Len(s) : s[i] = ch /\ \A j \in (i + 1) .. Len(s) : s[j] # ch
    ELSE 0

\* s.split(ch)[0]
BeforeFirst(s, ch) ==
    IF IndexOf(s, ch) = 0 THEN s ELSE SubSeq(s, 1, IndexOf(s, ch) - 1)

\* s.includes(ch) ? `${ch}${s.split(ch).slice(1).join(ch)}` : ''
FromFirst(s, ch) ==
    IF IndexOf(s, ch) = 0 THEN << >> ELSE SubSeq(s, IndexOf(s, ch), Len(s))

\* href.split('#')[0].split('?')[0]
StripHashAndQuery(href) == BeforeFirst(BeforeFirst(href, "#"), "?")

\* s.split(ch)
RECURSIVE Split(_, _)
Split(s, ch) ==
    IF IndexOf(s, ch) = 0 THEN <<s>>
    ELSE <<SubSeq(s, 1, IndexOf(s, ch) - 1)>>
            \o Split(SubSeq(s, IndexOf(s, ch) + 1, Len(s)), ch)

\* parts.join(ch)
RECURSIVE Join(_, _)
Join(parts, ch) ==
    IF parts = << >> THEN << >>
    ELSE IF Len(parts) = 1 THEN parts[1]
    ELSE parts[1] \o <<ch>> \o Join(Tail(parts), ch)

EndsWith(s, suffix) ==
    /\ Len(s) >= Len(suffix)
    /\ SubSeq(s, Len(s) - Len(suffix) + 1, Len(s)) = suffix

LowerOf(c) ==
    CASE c = "H" -> "h" [] c = "T" -> "t" [] c = "M" -> "m" [] c = "L" -> "l"
      [] c = "X" -> "x" [] c = "N" -> "n" [] c = "C" -> "c" [] c = "P" -> "p"
      [] c = "S" -> "s" [] OTHER -> c

ToLowerCase(s) ==
    IF s = << >> THEN << >> ELSE [i \in 1 .. Len(s) |-> LowerOf(s[i])]

\* /\.x?html?(#|$)/i.test(href)
HtmlHref(href) ==
    LET s == ToLowerCase(href)
        At(i, c) == i <= Len(s) /\ s[i] = c
        End(i) == i = Len(s) + 1 \/ At(i, "#")
        Htm(i) == /\ At(i, "h") /\ At(i + 1, "t") /\ At(i + 2, "m")
                  /\ (End(i + 3) \/ (At(i + 3, "l") /\ End(i + 4)))
    IN  \E i \in 1 .. Len(s) :
            s[i] = "." /\ (Htm(i + 1) \/ (At(i + 1, "x") /\ Htm(i + 2)))

\* The loop of resolvePath over rawParts, with the segments kept so far.
RECURSIVE NormalizeParts(_, _)
NormalizeParts(rawParts, normalized) ==
    IF rawParts = << >> THEN normalized
    ELSE LET part == Head(rawParts)
         IN  IF part = << >> \/ part = <<".">>
             THEN NormalizeParts(Tail(rawParts), normalized)
             ELSE IF part = <<".", ".">>
             THEN NormalizeParts(Tail(rawParts),
                                 IF normalized = << >> THEN << >>
                                 ELSE SubSeq(normalized, 1, Len(normalized) - 1))
             ELSE NormalizeParts(Tail(rawParts), Append(normalized, part))

\* resolvePath that keeps a '..' it cannot pop.
resolvePathKeepEscapes(basePath, href) ==
    LET rawParts == Split(basePath \o href, "/")
        normalized[i \in 0 .. Len(rawParts)] ==
            IF i = 0 THEN << >>
            ELSE LET part == rawParts[i]
                     before == normalized[i - 1]
                 IN  IF part = << >> \/ part = <<".">> THEN before
                     ELSE IF part = <<".", ".">> /\ before # << >>
                             /\ before[Len(before)] # <<".", ".">>
                     THEN SubSeq(before, 1, Len(before) - 1)
                     ELSE Append(before, part)
    IN  Join(normalized[Len(rawParts)], "/")

\* resolvePath whose '..' empties the stack.
resolvePathToRoot(basePath, href) ==
    LET rawParts == Split(basePath \o href, "/")
        normalized[i \in 0 .. Len(rawParts)] ==
            IF i = 0 THEN << >>
            ELSE LET part == rawParts[i]
                 IN  IF part = << >> \/ part = <<".">> THEN normalized[i - 1]
                     ELSE IF part = <<".", ".">> THEN << >>
                     ELSE Append(normalized[i - 1], part)
    IN  Join(normalized[Len(rawParts)], "/")

resolvePath(basePath, href) ==
    Join(NormalizeParts(Split(basePath \o href, "/"), << >>), "/")

dirname(path) ==
    IF LastIndexOf(path, "/") = 0 THEN << >>
    ELSE SubSeq(path, 1, LastIndexOf(path, "/"))

\* ---- the archive ----

\* Index of the first / last element of seq that satisfies P, 0 if none.
FirstIndex(seq, P(_)) ==
    IF \E i \in 1 .. Len(seq) : P(seq[i])
    THEN CHOOSE i \in 1 .. Len(seq) : P(seq[i]) /\ \A j \in 1 .. (i - 1) : ~P(seq[j])
    ELSE 0

LastIndex(seq, P(_)) ==
    IF \E i \in 1 .. Len(seq) : P(seq[i])
    THEN CHOOSE i \in 1 .. Len(seq) : P(seq[i]) /\ \A j \in (i + 1) .. Len(seq) : ~P(seq[j])
    ELSE 0

\* zip.file(path) is not null, and the file it returns.  A file is what the
\* parsers read from it: its <a href> elements (inNav: inside a <nav>),
\* whether its title or body text says contents, and for an NCX whether it
\* has a navMap, and the navPoint tree of it.
HasFile(files, path) == \E f \in files : f.path = path
ZipFile(files, path) == CHOOSE f \in files : f.path = path

\* textContent.trim(): display texts are opaque, blank ones trim to ''.
Trim(text) == IF text \in {"", " "} THEN "" ELSE text

\* A label: a display text, or the synthesized `Chapter ${n}`.
Label(text) == [text |-> text, n |-> 0]
ChapterLabel(n) == [text |-> "Chapter", n |-> n]

\* An id: `toc-1-2` is TocId(<<1, 2>>), `chapter-3` is ChapterId(3).
TocId(path) == [kind |-> "toc", path |-> path]
ChapterId(n) == [kind |-> "chapter", path |-> <<n>>]

\* buildSpineLookup: per spine position, whether the idref has a manifest item
\* (the last one of that id: new Map keeps the last entry of a key), and the
\* archive path and manifest href of it.
buildSpineLookup(basePath, manifest, spine) ==
    IF spine = << >> THEN << >> ELSE
    [k \in 1 .. Len(spine) |->
        LET m == LastIndex(manifest, LAMBDA item : item.id = spine[k])
        IN  IF m = 0 THEN [found |-> FALSE, path |-> << >>, href |-> << >>]
            ELSE [found |-> TRUE,
                  path |-> resolvePath(basePath, manifest[m].href),
                  href |-> manifest[m].href]]

\* spineLookup.pathToSpineIndex.get(path): -1 for undefined.  A later spine
\* item of the same path replaces an earlier one.
PathToSpineIndex(lookup, path) ==
    LastIndex(lookup, LAMBDA e : e.found /\ e.path = path) - 1

\* spineLookup.spineIndexToManifestHref.has(index) / .get(index)
HasManifestHref(lookup, index) ==
    index >= 0 /\ index < Len(lookup) /\ lookup[index + 1].found
ManifestHref(lookup, index) == lookup[index + 1].href

\* ---- the stages ----

\* normalizeTocLinks storing the href as the document wrote it, not the
\* manifest href of the spine item.
RECURSIVE NormalizeLinksRawHref(_, _, _, _, _, _)
NormalizeLinksRawHref(links, index, sourcePath, lookup, dedupe, tocItems) ==
    IF index > Len(links) THEN tocItems
    ELSE LET href == links[index].href
             resolvedPath == resolvePath(dirname(sourcePath), StripHashAndQuery(href))
             spineIndex == PathToSpineIndex(lookup, resolvedPath)
             title == IF Trim(links[index].text) = "" THEN ChapterLabel(spineIndex + 1)
                      ELSE Label(Trim(links[index].text))
         IN  IF \/ href = << >>
                \/ ~HtmlHref(href)
                \/ spineIndex < 0
                \/ ~HasManifestHref(lookup, spineIndex)
                \/ href \in dedupe
             THEN NormalizeLinksRawHref(links, index + 1, sourcePath, lookup, dedupe,
                                        tocItems)
             ELSE NormalizeLinksRawHref(links, index + 1, sourcePath, lookup,
                                        dedupe \cup {href},
                                        Append(tocItems, [title |-> title, href |-> href,
                                                          spineIndex |-> spineIndex]))

\* The loop of normalizeTocLinks from link `index` on, with the hrefs seen
\* and the items pushed so far.
RECURSIVE NormalizeLinks(_, _, _, _, _, _)
NormalizeLinks(links, index, sourcePath, lookup, dedupe, tocItems) ==
    IF index > Len(links) THEN tocItems
    ELSE LET href == links[index].href
             resolvedPath == resolvePath(dirname(sourcePath), StripHashAndQuery(href))
             spineIndex == PathToSpineIndex(lookup, resolvedPath)
             fullHref == ManifestHref(lookup, spineIndex) \o FromFirst(href, "#")
             title == IF Trim(links[index].text) = "" THEN ChapterLabel(spineIndex + 1)
                      ELSE Label(Trim(links[index].text))
         IN  IF \/ href = << >>
                \/ ~HtmlHref(href)
                \/ spineIndex < 0
                \/ ~HasManifestHref(lookup, spineIndex)
                \/ fullHref \in dedupe
             THEN NormalizeLinks(links, index + 1, sourcePath, lookup, dedupe, tocItems)
             ELSE NormalizeLinks(links, index + 1, sourcePath, lookup,
                                 dedupe \cup {fullHref},
                                 Append(tocItems, [title |-> title, href |-> fullHref,
                                                   spineIndex |-> spineIndex]))

\* items.sort((a, b) => a.spineIndex - b.spineIndex): the sort is stable.
RECURSIVE SortBySpineIndex(_, _, _)
SortBySpineIndex(items, k, last) ==
    IF k > last THEN << >>
    ELSE SelectSeq(items, LAMBDA it : it.spineIndex = k)
            \o SortBySpineIndex(items, k + 1, last)

\* normalizeTocLinks without its final sort: the entries stay in document
\* order.
normalizeTocLinksUnsorted(links, sourcePath, lookup) ==
    NormalizeLinks(links, 1, sourcePath, lookup, {}, << >>)

normalizeTocLinks(links, sourcePath, lookup) ==
    SortBySpineIndex(NormalizeLinks(links, 1, sourcePath, lookup, {}, << >>),
                     0, Len(lookup) - 1)

toStoredToc(items) ==
    IF items = << >> THEN << >>
    ELSE [index \in 1 .. Len(items) |->
            [id |-> TocId(<<index>>), label |-> items[index].title,
             href |-> items[index].href, children |-> << >>]]

extractNavToc(zip, lookup) ==
    LET n == FirstIndex(zip.manifest,
                        LAMBDA item : \E i \in 1 .. Len(item.properties) :
                                          item.properties[i] = "nav")
        navFilePath == resolvePath(zip.basePath, zip.manifest[n].href)
    IN  IF n = 0 THEN << >>
        ELSE IF ~HasFile(zip.files, navFilePath) THEN << >>
        ELSE normalizeTocLinks(SelectSeq(ZipFile(zip.files, navFilePath).anchors,
                                         LAMBDA a : a.inNav),
                               navFilePath, lookup)

\* normalizeNcxHref appending everything after the path, query included.
normalizeNcxHrefKeepQuery(src, ncxPath, lookup) ==
    IF src = << >> THEN << >>
    ELSE LET resolvedPath == resolvePath(dirname(ncxPath), StripHashAndQuery(src))
             spineIndex == PathToSpineIndex(lookup, resolvedPath)
             baseHref == IF spineIndex >= 0 /\ HasManifestHref(lookup, spineIndex)
                         THEN ManifestHref(lookup, spineIndex)
                         ELSE << >>
         IN  baseHref \o SubSeq(src, Len(StripHashAndQuery(src)) + 1, Len(src))

normalizeNcxHref(src, ncxPath, lookup) ==
    IF src = << >> THEN << >>
    ELSE LET resolvedPath == resolvePath(dirname(ncxPath), StripHashAndQuery(src))
             spineIndex == PathToSpineIndex(lookup, resolvedPath)
             baseHref == IF spineIndex >= 0 /\ HasManifestHref(lookup, spineIndex)
                         THEN ManifestHref(lookup, spineIndex)
                         ELSE << >>
         IN  baseHref \o FromFirst(src, "#")

\* parseNavPointElement(el, parentId) with the dedupe set as it is when the
\* call begins: whether it returns an item, the item, and the set afterwards.
\* ParseNavPoints is the map over sibling navPoints from position index on.
RECURSIVE parseNavPointElement(_, _, _, _, _)
RECURSIVE ParseNavPoints(_, _, _, _, _, _)
parseNavPointElement(el, parentId, ncxPath, lookup, dedupe) ==
    LET label == IF Trim(el.label) = "" THEN "Untitled" ELSE Trim(el.label)
        href == normalizeNcxHref(el.src, ncxPath, lookup)
        kids == ParseNavPoints(el.children, 1, parentId, ncxPath, lookup, dedupe)
        dropped == \/ href = << >> /\ kids.items = << >>
                   \/ href # << >> /\ href \in kids.dedupe /\ kids.items = << >>
    IN  [keep |-> ~dropped,
         item |-> [id |-> TocId(parentId), label |-> Label(label), href |-> href,
                   children |-> kids.items],
         dedupe |-> IF ~dropped /\ href # << >> THEN kids.dedupe \cup {href}
                    ELSE kids.dedupe]

ParseNavPoints(els, index, parentId, ncxPath, lookup, dedupe) ==
    IF index > Len(els) THEN [items |-> << >>, dedupe |-> dedupe]
    ELSE LET r == parseNavPointElement(els[index], Append(parentId, index),
                                       ncxPath, lookup, dedupe)
             rest == ParseNavPoints(els, index + 1, parentId, ncxPath, lookup, r.dedupe)
         IN  [items |-> (IF r.keep THEN <<r.item>> ELSE << >>) \o rest.items,
              dedupe |-> rest.dedupe]

NcxMediaType == "application/x-dtbncx+xml"

extractNcxToc(zip, lookup) ==
    LET n == FirstIndex(zip.manifest,
                        LAMBDA item : \/ item.mediaType = NcxMediaType
                                      \/ EndsWith(ToLowerCase(item.href),
                                                  <<".", "n", "c", "x">>))
        ncxPath == resolvePath(zip.basePath, zip.manifest[n].href)
    IN  IF n = 0 THEN << >>
        ELSE IF ~HasFile(zip.files, ncxPath) THEN << >>
        ELSE IF ~ZipFile(zip.files, ncxPath).navMap THEN << >>
        ELSE ParseNavPoints(ZipFile(zip.files, ncxPath).navPoints, 1, << >>,
                            ncxPath, lookup, {}).items

\* item.mediaType.toLowerCase().includes('html')
HtmlMediaTypes == {"application/xhtml+xml", "text/html"}

\* The filter of extractFallbackHtmlToc on the manifest.
IsHtmlItem(item) ==
    \/ item.mediaType \in HtmlMediaTypes
    \/ EndsWith(ToLowerCase(item.href), <<".", "x", "h", "t", "m", "l">>)
    \/ EndsWith(ToLowerCase(item.href), <<".", "h", "t", "m", "l">>)

\* One pass of the loop of extractFallbackHtmlToc over an html item: whether
\* it pushes a candidate, and the candidate.
HtmlCandidate(zip, lookup, item) ==
    LET itemPath == resolvePath(zip.basePath, item.href)
        htmlAnchors == SelectSeq(ZipFile(zip.files, itemPath).anchors,
                                 LAMBDA a : HtmlHref(a.href))
        linksToSpine ==
            Cardinality({i \in 1 .. Len(htmlAnchors) :
                PathToSpineIndex(lookup,
                    resolvePath(dirname(itemPath),
                                StripHashAndQuery(htmlAnchors[i].href))) >= 0})
        hasTocTitle == ZipFile(zip.files, itemPath).tocTitle
        hasManyLinks == Len(htmlAnchors) >= 5
        pointsToSpine == linksToSpine >= 3
    IN  IF ~HasFile(zip.files, itemPath)
        THEN [pushed |-> FALSE, path |-> itemPath, score |-> 0, anchors |-> << >>]
        ELSE [pushed |-> hasTocTitle \/ hasManyLinks \/ pointsToSpine,
              path |-> itemPath,
              score |-> (IF hasTocTitle THEN 3 ELSE 0) + (IF pointsToSpine THEN 2 ELSE 0)
                          + Min(FloorDiv(Len(htmlAnchors), 5), 3),
              anchors |-> htmlAnchors]

extractFallbackHtmlToc(zip, lookup) ==
    LET htmlItems == SelectSeq(zip.manifest, IsHtmlItem)
        cand(i) == HtmlCandidate(zip, lookup, htmlItems[i])
        pushed == {i \in 1 .. Len(htmlItems) : cand(i).pushed}
        \* candidates.sort((a, b) => b.score - a.score)[0]
        best == CHOOSE i \in pushed :
                    \A j \in pushed : \/ cand(i).score > cand(j).score
                                      \/ cand(i).score = cand(j).score /\ i <= j
    IN  IF pushed = {} THEN << >>
        ELSE normalizeTocLinks(cand(best).anchors, cand(best).path, lookup)

\* spine.map(...).filter(item => item !== null) from spine position k on.
RECURSIVE SpineTocFrom(_, _, _)
SpineTocFrom(spine, lookup, k) ==
    IF k > Len(spine) THEN << >>
    ELSE (IF ~HasManifestHref(lookup, k - 1) THEN << >>
          ELSE <<[id |-> ChapterId(k), label |-> ChapterLabel(k),
                  href |-> ManifestHref(lookup, k - 1), children |-> << >>]>>)
            \o SpineTocFrom(spine, lookup, k + 1)

\* A fallback that stores the archive path of the chapter, not its manifest
\* href.
generateSpineTocArchivePath(spine, lookup) ==
    LET items == SpineTocFrom(spine, lookup, 1)
    IN  IF items = << >> THEN << >>
        ELSE [i \in 1 .. Len(items) |->
                [items[i] EXCEPT !.href = lookup[items[i].id.path[1]].path]]

generateSpineToc(spine, lookup) == SpineTocFrom(spine, lookup, 1)

\* extractToc with the NCX consulted before the navigation document.
extractTocNcxFirst(zip) ==
    LET spineLookup == buildSpineLookup(zip.basePath, zip.manifest, zip.spine)
        navToc == extractNavToc(zip, spineLookup)
        ncxToc == extractNcxToc(zip, spineLookup)
        fallbackToc == extractFallbackHtmlToc(zip, spineLookup)
    IN  IF ncxToc # << >> THEN ncxToc
        ELSE IF navToc # << >> THEN toStoredToc(navToc)
        ELSE IF fallbackToc # << >> THEN toStoredToc(fallbackToc)
        ELSE generateSpineToc(zip.spine, spineLookup)

\* extractToc without its last stage: an empty heuristic result is returned
\* as it is.
extractTocNoSpineFallback(zip) ==
    LET spineLookup == buildSpineLookup(zip.basePath, zip.manifest, zip.spine)
        navToc == extractNavToc(zip, spineLookup)
        ncxToc == extractNcxToc(zip, spineLookup)
        fallbackToc == extractFallbackHtmlToc(zip, spineLookup)
    IN  IF navToc # << >> THEN toStoredToc(navToc)
        ELSE IF ncxToc # << >> THEN ncxToc
        ELSE toStoredToc(fallbackToc)

extractToc(zip) ==
    LET spineLookup == buildSpineLookup(zip.basePath, zip.manifest, zip.spine)
        navToc == extractNavToc(zip, spineLookup)
        ncxToc == extractNcxToc(zip, spineLookup)
        fallbackToc == extractFallbackHtmlToc(zip, spineLookup)
    IN  IF navToc # << >> THEN toStoredToc(navToc)
        ELSE IF ncxToc # << >> THEN ncxToc
        ELSE IF fallbackToc # << >> THEN toStoredToc(fallbackToc)
        ELSE generateSpineToc(zip.spine, spineLookup)

\* Reader.svelte getSpineIndexByHref(book, tocHref)
getSpineIndexByHref(manifest, spine, tocHref) ==
    LET hrefWithoutHash == BeforeFirst(tocHref, "#")
        m == FirstIndex(manifest, LAMBDA item : item.href = hrefWithoutHash)
        s == FirstIndex(spine, LAMBDA idref : idref = manifest[m].id)
    IN  IF m = 0 THEN 0
        ELSE IF s >= 1 THEN s - 1 ELSE 0

\* The entries of a TOC with their descendants, in document order.
RECURSIVE Flatten(_)
Flatten(items) ==
    IF items = << >> THEN << >>
    ELSE <<Head(items)>> \o Flatten(Head(items).children) \o Flatten(Tail(items))

\* ---- the archives imported ----

\* The hrefs the archives use: a.xhtml, t/b.xhtml, c.htm, n.xhtml (the
\* navigation document), t.ncx and t.NCX, q.xhtml (no file of the archive).
Href(name) ==
    LET xhtml == <<".", "x", "h", "t", "m", "l">>
    IN  CASE name = "a" -> <<"a">> \o xhtml
          [] name = "b" -> <<"t", "/", "b">> \o xhtml
          [] name = "c" -> <<"c", ".", "h", "t", "m">>
          [] name = "nav" -> <<"n">> \o xhtml
          [] name = "ncx" -> <<"t", ".", "n", "c", "x">>
          [] name = "NCX" -> <<"t", ".", "N", "C", "X">>
          [] OTHER -> <<"q">> \o xhtml

Item(id, href, mediaType, properties) ==
    [id |-> id, href |-> href, mediaType |-> mediaType, properties |-> properties]

Anchor(href, text, inNav) == [href |-> href, text |-> text, inNav |-> inNav]

\* A navPoint as parseNavPointElement reads it: the text of its navLabel, the
\* src attribute of its content element (<< >> for a content element without
\* src) and its navPoint children.
NavPoint(label, src, children) == [label |-> label, src |-> src, children |-> children]

HtmlFile(path, anchors, tocTitle) ==
    [path |-> path, anchors |-> anchors, tocTitle |-> tocTitle,
     navMap |-> FALSE, navPoints |-> << >>]

NcxDocument(path, navMap, navPoints) ==
    [path |-> path, anchors |-> << >>, tocTitle |-> FALSE,
     navMap |-> navMap, navPoints |-> navPoints]

\* The directory of the OPF inside the archive.
BasePaths == {<< >>, <<"O", "/">>}

\* spine > itemref idrefs: in manifest order, out of it, one idref twice, an
\* idref of no manifest item, none.
Spines == {<<"a", "b">>, <<"b", "a", "c">>, <<"a", "a">>, <<"a", "z">>, <<"z">>, << >>}

\* Manifests: chapter hrefs all different; two items of one href; an href
\* with a fragment.
ManifestKinds == {"plain", "dupHref", "hashHref"}
\* Navigation document: no nav item; a nav item whose file is missing; links
\* that resolve to no spine item; links to spine items.
NavKinds == {"none", "nofile", "unresolved", "links"}
\* NCX: no NCX item; an NCX (found by its href) without navMap; navPoints.
NcxKinds == {"none", "nomap", "points"}
\* Chapter a is an ordinary chapter, or a contents page linking to b and c.
HtmlKinds == {"none", "contents"}

ChapterItems(mk) ==
    <<Item("a", Href("a"), "application/xhtml+xml", << >>),
      Item("b", IF mk = "dupHref" THEN Href("a")
                ELSE IF mk = "hashHref" THEN Href("b") \o <<"#", "x">>
                ELSE Href("b"),
           "application/xhtml+xml", << >>),
      Item("c", Href("c"), "text/html", << >>)>>

Manifest(mk, nk, xk) ==
    ChapterItems(mk)
        \o (IF nk = "none" THEN << >>
            ELSE <<Item("nav", Href("nav"), "application/xhtml+xml", <<"nav">>)>>)
        \o (IF xk = "none" THEN << >>
            ELSE IF xk = "nomap" THEN <<Item("ncx", Href("NCX"), "text/xml", << >>)>>
            ELSE <<Item("ncx", Href("ncx"), NcxMediaType, << >>)>>)

NavAnchors(nk) ==
    IF nk = "links"
    THEN <<Anchor(Href("b") \o <<"#", "s">>, "B", TRUE),
           Anchor(<<".", "/">> \o Href("a"), " ", TRUE),
           Anchor(<<"t", "/", ".", ".", "/">> \o Href("b") \o <<"#", "s">>, "B again", TRUE),
           Anchor(Href("b") \o <<"#", "p">>, "B part", TRUE)>>
    ELSE <<Anchor(Href("q"), "Q", TRUE),
           Anchor(<<"b", ".", "p", "d", "f">>, "P", TRUE),
           Anchor(Href("c"), "C", FALSE)>>

NcxNavPoints ==
    <<NavPoint("A", Href("a"),
               <<NavPoint("A1", Href("a") \o <<"#", "p">>, << >>),
                 NavPoint(" ", Href("q"), << >>)>>),
      NavPoint("C", Href("c"), << >>),
      NavPoint("", Href("c"), << >>),
      NavPoint("Q", Href("q") \o <<"#", "f">>, << >>),
      NavPoint("P", << >>, <<NavPoint("B", Href("b"), << >>)>>),
      NavPoint("G", << >>, <<NavPoint("C again", Href("c"), << >>)>>),
      NavPoint(" ", Href("a") \o <<"?", "v", "#", "s">>, << >>)>>

Files(bp, nk, xk, hk) ==
    {HtmlFile(bp \o Href("a"),
              IF hk = "contents"
              THEN <<Anchor(Href("c"), "", FALSE), Anchor(Href("b") \o <<"#", "s">>, "B", FALSE)>>
              ELSE << >>,
              hk = "contents"),
     HtmlFile(bp \o Href("b"), << >>, FALSE),
     HtmlFile(bp \o Href("c"), << >>, FALSE)}
    \cup (IF nk \in {"unresolved", "links"}
          THEN {HtmlFile(bp \o Href("nav"), NavAnchors(nk), FALSE)} ELSE {})
    \cup (IF xk = "points" THEN {NcxDocument(bp \o Href("ncx"), TRUE, NcxNavPoints)}
          ELSE IF xk = "nomap" THEN {NcxDocument(bp \o Href("NCX"), FALSE, << >>)}
          ELSE {})

MakeEpub(bp, sp, mk, nk, xk, hk) ==
    [basePath |-> bp, manifest |-> Manifest(mk, nk, xk), spine |-> sp,
     files |-> Files(bp, nk, xk, hk)]

Epubs ==
    {MakeEpub(bp, sp, mk, nk, xk, hk) :
        bp \in BasePaths, sp \in Spines, mk \in ManifestKinds,
        nk \in NavKinds, xk \in NcxKinds, hk \in HtmlKinds}

\* ---- import and TOC selection ----

\* parseEpub: the table of contents it stores with the book.
parseEpub ==
    /\ ~toc.parsed
    /\ toc' = [parsed |-> TRUE, items |-> extractToc(epub)]
    /\ UNCHANGED <<epub, selected, pathVars, sanVars, shelfVars, anchorVars, urlVars, pageVars, contentVars, readerVars>>

\* The reader clicks the k-th entry of the TOC panel: onSelectToc resolves
\* its href with getSpineIndexByHref.
SelectTocEntry(k) ==
    /\ toc.parsed
    /\ selected.entry # k
    /\ selected' = [entry |-> k,
                    spineIndex |-> getSpineIndexByHref(epub.manifest, epub.spine,
                                                       Flatten(toc.items)[k].href)]
    /\ UNCHANGED <<epub, toc, pathVars, sanVars, shelfVars, anchorVars, urlVars, pageVars, contentVars, readerVars>>

InitToc ==
    /\ epub \in Epubs
    /\ toc = [parsed |-> FALSE, items |-> << >>]
    /\ selected = NoSelection
    /\ pathIn = [basePath |-> << >>, href |-> << >>]
    /\ importPath = NoPath
    /\ readerPath = NoPath
    /\ san = NoSanitizer
    /\ shelf = NoShelf
    /\ anchorDom = NoDom
    /\ resources = NoResources
    /\ NoBook
    /\ pagination = InitialPagination
    /\ lastCall = NoCall
    /\ loading = FALSE
    /\ isVertical = FALSE
    /\ clientWidth = 0
    /\ ConstructContent

NextToc ==
    \/ parseEpub
    \/ \E k \in 1 .. Len(Flatten(toc.items)) : SelectTocEntry(k)

SpecToc == InitToc /\ [][NextToc]_vars

\* The four stages on the archive imported, in stored form.
SpineLookup == buildSpineLookup(epub.basePath, epub.manifest, epub.spine)
NavResult == toStoredToc(extractNavToc(epub, SpineLookup))
NcxResult == extractNcxToc(epub, SpineLookup)
HtmlResult == toStoredToc(extractFallbackHtmlToc(epub, SpineLookup))
SpineResult == generateSpineToc(epub.spine, SpineLookup)

\* The hrefs of the entries of a TOC, at any depth.
Hrefs(items) == {Flatten(items)[i].href : i \in 1 .. Len(Flatten(items))}

\* ============================================================================
\* resolvePath: parseEpub.ts resolves a manifest href against the directory
\* of the OPF when it builds the spine lookup; Reader.svelte has its own
\* resolvePath and resolves the same href when it opens the chapter.
\* ============================================================================

MaxBaseLen == 2
MaxHrefLen == 4

\* The pairs resolved: every base path and href, within the lengths, made of
\* a name character, the dot and the separator; and 'a/b/' + '../c.png' and
\* 'a/' + '../../x' with one-character names.
PathInputs ==
    LET Strings(n) == UNION {[1 .. k -> {"a", ".", "/"}] : k \in 0 .. n}
    IN  {[basePath |-> b, href |-> h] :
            b \in Strings(MaxBaseLen), h \in Strings(MaxHrefLen)}
        \cup {[basePath |-> <<"a", "/", "b", "/">>, href |-> <<".", ".", "/", "c">>],
              [basePath |-> <<"a", "/">>,
               href |-> <<".", ".", "/", ".", ".", "/", "x">>]}

\* Reader.svelte resolvePath: normalized[i] is the array after the loop has
\* taken the first i parts.
resolvePathReader(basePath, href) ==
    LET combined == basePath \o href
        rawParts == Split(combined, "/")
        normalized[i \in 0 .. Len(rawParts)] ==
            IF i = 0 THEN << >>
            ELSE LET part == rawParts[i]
                 IN  IF part = << >> \/ part = <<".">> THEN normalized[i - 1]
                     ELSE IF part = <<".", ".">>
                     THEN (IF normalized[i - 1] = << >> THEN << >>
                           ELSE SubSeq(normalized[i - 1], 1, Len(normalized[i - 1]) - 1))
                     ELSE Append(normalized[i - 1], part)
    IN  Join(normalized[Len(rawParts)], "/")

\* Reader.svelte getBasePath
getBasePath(opfPath) == SubSeq(opfPath, 1, LastIndexOf(opfPath, "/"))

\* Reader.svelte getChapterPath(targetBook, chapterIndex): null, or the path.
getChapterPath(targetBook, chapterIndex) ==
    LET m == IF chapterIndex < Len(targetBook.spine)
             THEN FirstIndex(targetBook.manifest,
                             LAMBDA item : item.id = targetBook.spine[chapterIndex + 1])
             ELSE 0
    IN  IF chapterIndex >= Len(targetBook.spine) \/ m = 0
        THEN [found |-> FALSE, path |-> << >>]
        ELSE [found |-> TRUE,
              path |-> resolvePathReader(getBasePath(targetBook.opfPath),
                                         targetBook.manifest[m].href)]

\* The book of one chapter whose OPF is the file o in the directory
\* pathIn.basePath and whose chapter has the manifest href pathIn.href.
PathBook ==
    [opfPath |-> pathIn.basePath \o <<"o">>,
     manifest |-> <<Item("x", pathIn.href, "application/xhtml+xml", << >>)>>,
     spine |-> <<"x">>]

\* parseEpub.ts: resolvePath on the pair, and the path buildSpineLookup enters
\* for the chapter of PathBook (basePath as parseEpub takes it from opfPath;
\* extractManifest skips an item without href).
ResolveAtImport ==
    /\ ~importPath.done
    /\ importPath' =
          [done |-> TRUE,
           path |-> resolvePath(pathIn.basePath, pathIn.href),
           chapter |->
              LET basePath == SubSeq(PathBook.opfPath, 1,
                                     LastIndexOf(PathBook.opfPath, "/"))
              IN  IF pathIn.href = << >> THEN << >>
                  ELSE buildSpineLookup(basePath, PathBook.manifest,
                                        PathBook.spine)[1].path]
    /\ UNCHANGED <<pathIn, readerPath, epub, toc, selected, sanVars, shelfVars, anchorVars, urlVars,
                   pageVars, contentVars, readerVars>>

\* Reader.svelte: resolvePath on the pair, and getChapterPath for the chapter
\* of PathBook.
ResolveInReader ==
    /\ ~readerPath.done
    /\ readerPath' =
          [done |-> TRUE,
           path |-> resolvePathReader(pathIn.basePath, pathIn.href),
           chapter |-> IF pathIn.href = << >> THEN << >>
                       ELSE getChapterPath(PathBook, 0).path]
    /\ UNCHANGED <<pathIn, importPath, epub, toc, selected, sanVars, shelfVars, anchorVars, urlVars,
                   pageVars, contentVars, readerVars>>

InitPath ==
    /\ pathIn \in PathInputs
    /\ importPath = NoPath
    /\ readerPath = NoPath
    /\ san = NoSanitizer
    /\ shelf = NoShelf
    /\ anchorDom = NoDom
    /\ resources = NoResources
    /\ epub = NoEpub
    /\ toc = [parsed |-> FALSE, items |-> << >>]
    /\ selected = NoSelection
    /\ NoBook
    /\ pagination = InitialPagination
    /\ lastCall = NoCall
    /\ loading = FALSE
    /\ isVertical = FALSE
    /\ clientWidth = 0
    /\ ConstructContent

NextPath ==
    \/ ResolveAtImport
    \/ ResolveInReader

SpecPath == InitPath /\ [][NextPath]_vars

\* The segments of a path: none for the empty path.
Segments(path) == IF path = << >> THEN << >> ELSE Split(path, "/")

\* The reference algorithm: the stack after the segments of combined have
\* been taken from the left, by induction on the last segment.
RECURSIVE StackOf(_)
StackOf(parts) ==
    IF parts = << >> THEN << >>
    ELSE LET last == parts[Len(parts)]
             stack == StackOf(SubSeq(parts, 1, Len(parts) - 1))
         IN  CASE last \in {<< >>, <<".">>} -> stack
               [] last = <<".", ".">> ->
                    IF Len(stack) = 0 THEN stack ELSE SubSeq(stack, 1, Len(stack) - 1)
               [] OTHER -> stack \o <<last>>

\* ============================================================================
\* preprocessChapterHtml on the elements of one chapter: the <img src> loop
\* and the SVG <image> loop, one invocation that no newer one supersedes.
\* ============================================================================

\* Number of children of the chapter's body.
MaxNodes == 2

\* References: i.png, data:x, blob:x, http://x, HTTPS://x, /x, ftp://x, the
\* empty attribute value, and the object URL the resolver returns.
Url(name) ==
    CASE name = "rel" -> <<"i", ".", "p", "n", "g">>
      [] name = "data" -> <<"d", "a", "t", "a", ":", "x">>
      [] name = "blob" -> <<"b", "l", "o", "b", ":", "x">>
      [] name = "http" -> <<"h", "t", "t", "p", ":", "/", "/", "x">>
      [] name = "HTTPS" -> <<"H", "T", "T", "P", "S", ":", "/", "/", "x">>
      [] name = "root" -> <<"/", "x">>
      [] name = "ftp" -> <<"f", "t", "p", ":", "/", "/", "x">>
      [] name = "resolved" -> <<"b", "l", "o", "b", ":", "r">>
      [] OTHER -> << >>

\* /^(data:|blob:|https?:|\/)/i.test(url)
isAbsoluteUrl(url) ==
    LET s == ToLowerCase(url)
        StartsWith(prefix) == Len(s) >= Len(prefix) /\ SubSeq(s, 1, Len(prefix)) = prefix
    IN  \/ StartsWith(<<"d", "a", "t", "a", ":">>)
        \/ StartsWith(<<"b", "l", "o", "b", ":">>)
        \/ StartsWith(<<"h", "t", "t", "p", ":">>)
        \/ StartsWith(<<"h", "t", "t", "p", "s", ":">>)
        \/ StartsWith(<<"/">>)

\* Elements: <p>, <img src>, <svg> with its <image> elements, and an <image>
\* outside any <svg> (tag "image", which holds itself as its only image).
ImageEl(href, xlink) == [href |-> href, xlink |-> xlink, removed |-> FALSE]
Element(tag, src, images) ==
    [tag |-> tag, src |-> src, images |-> images, removed |-> FALSE]

Elements ==
    {Element("p", << >>, << >>)}
        \cup {Element("img", Url(n), << >>) :
                n \in {"rel", "data", "blob", "http", "HTTPS", "root", "ftp", "none"}}
        \cup {Element("svg", << >>, <<ImageEl(Url(h), Url(x))>>) :
                h \in {"rel", "none", "http"}, x \in {"rel", "none"}}
        \cup {Element("svg", << >>, <<ImageEl(Url("rel"), << >>), ImageEl(<< >>, Url("rel"))>>)}
        \cup {Element("image", << >>, <<ImageEl(Url(h), Url(x))>>) :
                h \in {"rel", "none"}, x \in {"rel", "none"}}

\* The bodies of the chapters sanitised.
Documents == UNION {[1 .. k -> Elements] : k \in 1 .. MaxNodes}

\* Array.from(doc.querySelectorAll('image')): <<element, image>> positions in
\* document order, from element n on.
RECURSIVE ImageTags(_, _)
ImageTags(doc, n) ==
    IF n > Len(doc) THEN << >>
    ELSE [k \in 1 .. Len(doc[n].images) |-> <<n, k>>] \o ImageTags(doc, n + 1)

\* svgImage.getAttribute('href') || svgImage.getAttribute('xlink:href')
ImageHref(image) == IF image.href # << >> THEN image.href ELSE image.xlink

\* The failed image alone is removed, whatever encloses it.
removeFailedImageOnly(doc, n, k) == [doc EXCEPT ![n].images[k].removed = TRUE]

\* svgImage.closest('svg'): the container is removed if there is one, else the
\* image.
removeFailedImage(doc, n, k) ==
    IF doc[n].tag = "svg" THEN [doc EXCEPT ![n].removed = TRUE]
    ELSE [doc EXCEPT ![n].images[k].removed = TRUE]

\* The invocation goes on from position `from` of the loop `pc` ("img" over
\* the elements, "image" over ImageTags) until it calls resolveAssetUrl and
\* suspends, or has left both loops ("done": the token is the latest, so
\* renderedHtml = doc.body.innerHTML).
RECURSIVE Sanitize(_, _, _)
Sanitize(run, pc, from) ==
    IF pc = "img"
    THEN IF from > Len(run.doc) THEN Sanitize(run, "image", 1)
         ELSE LET img == run.doc[from]
              IN  IF img.tag # "img" \/ img.src = << >> \/ isAbsoluteUrl(img.src)
                  THEN Sanitize(run, "img", from + 1)
                  ELSE [run EXCEPT !.pc = "img", !.next = from,
                                   !.calls = Append(@, [loop |-> "img", at |-> <<from, 0>>,
                                                        path |-> img.src, ok |-> FALSE])]
    ELSE IF from > Len(ImageTags(run.input, 1)) THEN [run EXCEPT !.pc = "done", !.next = 0]
         ELSE LET at == ImageTags(run.input, 1)[from]
                  href == ImageHref(run.doc[at[1]].images[at[2]])
              IN  IF href = << >> \/ isAbsoluteUrl(href)
                  THEN Sanitize(run, "image", from + 1)
                  ELSE [run EXCEPT !.pc = "image", !.next = from,
                                   !.calls = Append(@, [loop |-> "image", at |-> at,
                                                        path |-> href, ok |-> FALSE])]

\* preprocessChapterHtml is called for the chapter: it parses chapterHtml and
\* runs to its first await.
SanitizeChapter ==
    /\ san.pc = "idle"
    /\ san' = Sanitize([san EXCEPT !.doc = san.input], "img", 1)
    /\ UNCHANGED <<epub, toc, selected, pathVars, shelfVars, anchorVars, urlVars, pageVars, contentVars,
                   readerVars>>

\* resolveAssetUrl settles with a URL (ok) or with null: the element is
\* rewritten or removed, and the loop goes on.
SanitizerAssetResolved(ok) ==
    /\ san.pc \in {"img", "image"}
    /\ LET call == san.calls[Len(san.calls)]
           n == call.at[1]
           k == call.at[2]
           doc == IF san.pc = "img"
                  THEN (IF ok THEN [san.doc EXCEPT ![n].src = Url("resolved")]
                        ELSE [san.doc EXCEPT ![n].removed = TRUE])
                  ELSE (IF ok THEN [san.doc EXCEPT ![n].images[k].href = Url("resolved"),
                                                   ![n].images[k].xlink = Url("resolved")]
                        ELSE removeFailedImage(san.doc, n, k))
       IN  san' = Sanitize([san EXCEPT !.doc = doc, !.calls[Len(san.calls)].ok = ok],
                           san.pc, san.next + 1)
    /\ UNCHANGED <<epub, toc, selected, pathVars, shelfVars, anchorVars, urlVars, pageVars, contentVars,
                   readerVars>>

InitSanitizer ==
    /\ san \in {[NoSanitizer EXCEPT !.input = d] : d \in Documents}
    /\ shelf = NoShelf
    /\ anchorDom = NoDom
    /\ resources = NoResources
    /\ epub = NoEpub
    /\ toc = [parsed |-> FALSE, items |-> << >>]
    /\ selected = NoSelection
    /\ pathIn = [basePath |-> << >>, href |-> << >>]
    /\ importPath = NoPath
    /\ readerPath = NoPath
    /\ NoBook
    /\ pagination = InitialPagination
    /\ lastCall = NoCall
    /\ loading = FALSE
    /\ isVertical = FALSE
    /\ clientWidth = 0
    /\ ConstructContent

NextSanitizer ==
    \/ SanitizeChapter
    \/ \E ok \in BOOLEAN : SanitizerAssetResolved(ok)

SpecSanitizer == InitSanitizer /\ [][NextSanitizer]_vars

\* doc.body.innerHTML: whether the element at n, and the image k of it, is in
\* the output.
InOutput(n) ==
    /\ ~san.doc[n].removed
    /\ san.doc[n].tag = "image" => ~san.doc[n].images[1].removed
ImageInOutput(n, k) == InOutput(n) /\ ~san.doc[n].images[k].removed

\* The calls of resolveAssetUrl made for the element or image at position at.
CallsFor(at) == SelectSeq(san.calls, LAMBDA c : c.at = at)

\* A URL with a scheme: a ':' after at least one character and before any '/'.
ProtocolQualified(url) ==
    /\ IndexOf(url, ":") > 1
    /\ IndexOf(url, "/") = 0 \/ IndexOf(url, ":") < IndexOf(url, "/")

\* ============================================================================
\* ReaderContent.svelte: in-chapter fragment navigation.  The parent issues a
\* request by setting pendingFragment with a new pendingFragmentRequestId.
\* ============================================================================

\* Cap on pendingFragmentRequestId (the parent's counter is unbounded).
MaxFragments == 2

\* document.getElementById(fragment): fragment f is the id of the last
\* paragraph of chapter f.  The child index of the element, or -1 (null).
GetElementById(f) ==
    IF f # 0 /\ ArticleMounted /\ renderedHtml.chapter = f
       /\ Rendered(renderedHtml.st) # << >>
    THEN Len(Rendered(renderedHtml.st)) - 1
    ELSE -1

\* The parent issues a fragment request.
ParentFragment(f) ==
    /\ ~destroyed
    /\ pendingFragmentRequestId < MaxFragments
    /\ pendingFragment' = f
    /\ pendingFragmentRequestId' = pendingFragmentRequestId + 1
    /\ UNCHANGED <<readerVars, loading, error, chapterHtml, chapterRenderId,
                   showCoverPage, currentSpineIndex, isVertical>>
    /\ ContentFlush

\* handlePendingFragment after its await tick(), for the invocation h: it
\* looks the element up by the pendingFragment of now, scrolls to it or, in
\* vertical mode, anchors its text node and restores the page from the
\* anchor, and calls onFragmentHandled.
FragmentTick(h) ==
    /\ frags[h].pc = "tick"
    /\ LET target == GetElementById(pendingFragment)
           anchor == [spineIndex |-> currentSpineIndex,
                      nodePath |-> buildNodePath(renderedHtml, target),
                      charOffset |-> 0,
                      origin |-> renderedHtml.chapter]
           absoluteOffset == MarkerRectLeft(target, trackTransform)
                               - ArticleRectLeft(trackTransform)
                               + pagination.pageIndex * pagination.viewportWidth
           restored == setPageByOffset(pagination, absoluteOffset)
       IN  /\ IF target >= 0 /\ isVertical
              THEN /\ readingAnchor' = anchor
                   /\ pagination' = restored
                   /\ trackTransform' = applyTransform(restored)
              ELSE UNCHANGED <<readingAnchor, pagination, trackTransform>>
           /\ lastFragment' = [called |-> TRUE,
                               startedFor |-> frags[h].requestId,
                               fragment |-> pendingFragment,
                               target |-> target,
                               jumped |-> target >= 0,
                               signalled |-> TRUE]
    /\ frags' = [frags EXCEPT ![h].pc = "done"]
    /\ lastApplied' = NoApplied
    /\ lastRestore' = NoRestore
    /\ UNCHANGED <<readerVars, tocVars, propVars, lastCall, renderedHtml, viewportWidth,
                   processingToken, lastProcessedId, lastFragmentRequestId, runs,
                   clientWidth, destroyed>>

InitFragment ==
    /\ NoBook
    /\ NoImport
    /\ pagination = InitialPagination
    /\ lastCall = NoCall
    /\ loading = FALSE
    /\ isVertical \in BOOLEAN
    /\ clientWidth = MaxViewport
    /\ ConstructContent

NextFragment ==
    \/ ParentLoading
    \/ \E c \in Chapters : ParentChapter(c)
    \/ ParentError
    \/ \E f \in Chapters : ParentFragment(f)
    \/ \E t \in DOMAIN runs : \E ok \in BOOLEAN : AssetResolved(t, ok)
    \/ \E t \in DOMAIN runs : MeasureDone(t)
    \/ \E h \in DOMAIN frags : FragmentTick(h)

SpecFragment == InitFragment /\ [][NextFragment]_vars

\* ============================================================================
\* Bookshelf.svelte: the shelf page imports an archive with parseEpub and
\* stores the book.
\* ============================================================================

\* Cap on the files the user picks.
MaxImports == 1

\* extractManifest: item elements lacking id, href or media-type are skipped.
extractManifest(items) ==
    SelectSeq(items, LAMBDA item : item.id # "" /\ item.href # << >> /\ item.mediaType # "")

\* extractSpine: itemref elements lacking idref are skipped.
extractSpine(itemrefs) == SelectSeq(itemrefs, LAMBDA idref : idref # "")

\* The OPF file name.
OpfName == <<"c", ".", "o", "p", "f">>

\* The ways the navigation document links to a chapter href.
LinkForms == {"plain", "dot", "fragment"}
LinkTo(href, form) ==
    IF form = "dot" THEN <<".", "/">> \o href
    ELSE IF form = "fragment" THEN href \o <<"#", "s">>
    ELSE href

\* A picked file: container is "absent" (no META-INF/container.xml),
\* "norootfile" (it has no rootfile element) or "ok"; opfPath is the
\* rootfile's full-path and hasOpf whether the archive has that entry.  The
\* OPF has two manifest items, the chapter `ch`, which is the spine, and the
\* navigation document, whose nav element links once to the chapter.  The
\* chapter file is relative to the navigation document's directory, which is
\* the OPF's.
PickedFile(container, hasOpf, bp, ch, form, navFirst) ==
    LET chapter == Item(ch, Href(ch), "application/xhtml+xml", << >>)
        nav == Item("nav", Href("nav"), "application/xhtml+xml", <<"nav">>)
    IN  [container |-> container,
         opfPath |-> bp \o OpfName,
         hasOpf |-> hasOpf,
         items |-> IF navFirst THEN <<nav, chapter>> ELSE <<chapter, nav>>,
         itemrefs |-> <<ch>>,
         files |-> {HtmlFile(bp \o Href(ch), << >>, FALSE),
                    HtmlFile(bp \o Href("nav"),
                             <<Anchor(LinkTo(Href(ch), form), "A", TRUE)>>, FALSE)}]

WellFormedFiles ==
    {PickedFile("ok", TRUE, bp, ch, form, navFirst) :
        bp \in BasePaths, ch \in {"a", "b"}, form \in LinkForms, navFirst \in BOOLEAN}

BrokenFiles ==
    {PickedFile(container, hasOpf, << >>, "a", "plain", FALSE) :
        container \in {"absent", "norootfile", "ok"}, hasOpf \in BOOLEAN}
      \ WellFormedFiles

PickedFiles == WellFormedFiles \cup BrokenFiles

NoStoredBook == [opfPath |-> << >>, manifest |-> << >>, spine |-> << >>, toc |-> << >>]

\* parseEpub lines 44 and 51-52: the directory of the OPF, the manifest and
\* the spine; with the archive's files, what extractToc works on.
OpfContent(file) ==
    [basePath |-> SubSeq(file.opfPath, 1, LastIndexOf(file.opfPath, "/")),
     manifest |-> extractManifest(file.items),
     spine |-> extractSpine(file.itemrefs),
     files |-> file.files]

\* parseEpub with the OPF read although the archive has no such entry: the
\* book of a missing OPF is empty.
ParsedBookLenient(import) ==
    IF import.file.container # "ok" THEN [ok |-> FALSE, book |-> NoStoredBook]
    ELSE IF ~import.file.hasOpf
    THEN [ok |-> TRUE, book |-> [NoStoredBook EXCEPT !.opfPath = import.file.opfPath]]
    ELSE [ok |-> TRUE,
          book |-> [opfPath |-> import.file.opfPath,
                    manifest |-> import.zip.manifest,
                    spine |-> import.zip.spine,
                    toc |-> extractToc(import.zip)]]

\* parseEpub(file): zip.file('META-INF/container.xml')!, querySelector
\* ('rootfile')! and zip.file(opfPath)! are null for a missing entry or
\* element, and the property access on null throws; otherwise the Book.
ParsedBook(import) ==
    IF import.file.container # "ok" \/ ~import.file.hasOpf
    THEN [ok |-> FALSE, book |-> NoStoredBook]
    ELSE [ok |-> TRUE,
          book |-> [opfPath |-> import.file.opfPath,
                    manifest |-> import.zip.manifest,
                    spine |-> import.zip.spine,
                    toc |-> extractToc(import.zip)]]

\* db.getAll('books'): the stored books in key order.
RECURSIVE InKeyOrder(_)
InKeyOrder(ids) ==
    IF ids = {} THEN << >>
    ELSE LET least == CHOOSE i \in ids : \A j \in ids : i <= j
         IN  <<least>> \o InKeyOrder(ids \ {least})

ShelfUnchanged ==
    UNCHANGED <<epub, toc, selected, pathVars, sanVars, anchorVars, urlVars, pageVars, contentVars,
                readerVars>>

\* onFileChange up to its first await.  The id of the book is the number of
\* the import; zip is what the OPF of the picked file holds.
onFileChange(file) ==
    /\ Len(shelf.imports) < MaxImports
    /\ shelf' = [shelf EXCEPT !.loading = TRUE, !.error = NULL,
                              !.imports = Append(@, [file |-> file,
                                                     zip |-> OpfContent(file),
                                                     pc |-> "parsing",
                                                     book |-> NoStoredBook])]
    /\ ShelfUnchanged

\* onFileChange for import n after `await parseEpub(file)` settled as r:
\* with a Book, and saveBook is called, or with an exception, and the catch
\* and finally clauses run.
AfterParse(n, r) ==
    IF r.ok
    THEN [shelf EXCEPT !.imports[n].pc = "saving", !.imports[n].book = r.book]
    ELSE [shelf EXCEPT !.imports[n].pc = "failed",
                       !.error = "Failed to load EPUB file.",
                       !.loading = FALSE]

\* await parseEpub(file) settles for import n.
parseEpubSettled(n) ==
    /\ shelf.imports[n].pc = "parsing"
    /\ shelf' = AfterParse(n, ParsedBook(shelf.imports[n]))
    /\ ShelfUnchanged

\* await saveBook(book) settles for import n: the book is in the store and
\* is put in front of the shelf, or db.put rejected.
saveBookSettled(n, ok) ==
    /\ shelf.imports[n].pc = "saving"
    /\ shelf' = IF ok
                THEN [shelf EXCEPT !.imports[n].pc = "done",
                                   !.stored = @ \cup {n},
                                   !.books = <<n>> \o @,
                                   !.loading = FALSE]
                ELSE [shelf EXCEPT !.imports[n].pc = "failed",
                                   !.error = "Failed to load EPUB file.",
                                   !.loading = FALSE]
    /\ ShelfUnchanged

\* loadBooks, called on mount: getAllBooks() settles.
loadBooks ==
    /\ ~shelf.listed
    /\ shelf' = [shelf EXCEPT !.listed = TRUE, !.books = InKeyOrder(shelf.stored)]
    /\ ShelfUnchanged

\* The page is mounted over a store that is empty or holds book 0.
InitShelf ==
    /\ shelf \in {[NoShelf EXCEPT !.stored = ids] : ids \in {{}, {0}}}
    /\ anchorDom = NoDom
    /\ resources = NoResources
    /\ epub = NoEpub
    /\ toc = [parsed |-> FALSE, items |-> << >>]
    /\ selected = NoSelection
    /\ pathIn = [basePath |-> << >>, href |-> << >>]
    /\ importPath = NoPath
    /\ readerPath = NoPath
    /\ san = NoSanitizer
    /\ NoBook
    /\ pagination = InitialPagination
    /\ lastCall = NoCall
    /\ loading = FALSE
    /\ isVertical = FALSE
    /\ clientWidth = 0
    /\ ConstructContent

NextShelf ==
    \/ \E file \in PickedFiles : onFileChange(file)
    \/ \E n \in DOMAIN shelf.imports : parseEpubSettled(n)
    \/ \E n \in DOMAIN shelf.imports : \E ok \in BOOLEAN : saveBookSettled(n, ok)
    \/ loadBooks

SpecShelf == InitShelf /\ [][NextShelf]_vars

\* ============================================================================
\* ReaderContent.svelte: the node path of the reading anchor.  buildNodePath
\* and resolveNodePath walk the DOM below the article by parentNode and
\* childNodes; the content is re-rendered by {@html renderedHtml}.
\* ============================================================================

\* Most nodes below the article.
MaxDomNodes == 3

\* null
NoNode == -1
\* articleEl
Article == 0

\* A DOM below the article: nodes 1 .. n in document order, each a Text or an
\* Element, each with its parentNode (the article or an element before it).
DomsOf(n) ==
    {[kind |-> k, parent |-> p] :
        k \in [1 .. n -> {"text", "el"}],
        p \in {q \in [1 .. n -> 0 .. (n - 1)] :
                 \A i \in 1 .. n : q[i] < i}}
Doms ==
    {d \in UNION {DomsOf(n) : n \in 1 .. MaxDomNodes} :
        \A i \in DOMAIN d.kind : d.parent[i] = Article \/ d.kind[d.parent[i]] = "el"}

\* node.parentNode (the article is the top of what is modelled)
parentNode(dom, node) == IF node = Article THEN NoNode ELSE dom.parent[node]

\* node.childNodes
childNodes(dom, node) ==
    IF dom.kind = << >> THEN << >>
    ELSE SelectSeq([i \in 1 .. Len(dom.kind) |-> i], LAMBDA i : dom.parent[i] = node)

\* node instanceof Text
IsText(dom, node) == node \in DOMAIN dom.kind /\ dom.kind[node] = "text"

\* Array.prototype.indexOf.call(nodes, node)
IndexOfNode(nodes, node) ==
    IF \E i \in DOMAIN nodes : nodes[i] = node
    THEN (CHOOSE i \in DOMAIN nodes : nodes[i] = node) - 1
    ELSE -1

\* buildNodePath pushing each index at the end of the path.
buildNodePathPush(dom, root, target) ==
    LET up[node \in (DOMAIN dom.kind) \cup {Article}] ==
            IF node = root \/ parentNode(dom, node) = NoNode THEN << >>
            ELSE <<IndexOfNode(childNodes(dom, parentNode(dom, node)), node)>>
                    \o up[parentNode(dom, node)]
    IN  up[target]

\* The while loop of buildNodePath at `node`, with the path built so far.
RECURSIVE BuildNodePathLoop(_, _, _, _)
BuildNodePathLoop(dom, root, node, path) ==
    IF node = NoNode \/ node = root THEN path
    ELSE IF parentNode(dom, node) = NoNode THEN path
    ELSE BuildNodePathLoop(dom, root, parentNode(dom, node),
                           <<IndexOfNode(childNodes(dom, parentNode(dom, node)), node)>>
                               \o path)

buildNodePathFrom(dom, root, target) == BuildNodePathLoop(dom, root, target, << >>)

\* The for loop of resolveNodePath at `node`, with the indices still to
\* follow, then the instanceof test.
RECURSIVE ResolveNodePathLoop(_, _, _)
ResolveNodePathLoop(dom, node, path) ==
    IF path = << >> THEN (IF IsText(dom, node) THEN node ELSE NoNode)
    ELSE IF Head(path) < 0 \/ Head(path) >= Len(childNodes(dom, node)) THEN NoNode
    ELSE ResolveNodePathLoop(dom, childNodes(dom, node)[Head(path) + 1], Tail(path))

resolveNodePathFrom(dom, root, path) == ResolveNodePathLoop(dom, root, path)

\* The contents {@html} may render next: the same again, or one that differs
\* by its last node or by the kind or the parent of one node.
NextDoms(dom) ==
    {d \in Doms :
        \/ d = dom
        \/ /\ Len(d.kind) = Len(dom.kind)
           /\ Cardinality({i \in DOMAIN d.kind :
                              d.kind[i] # dom.kind[i] \/ d.parent[i] # dom.parent[i]}) = 1
        \/ /\ Len(d.kind) = Len(dom.kind) + 1
           /\ \A i \in DOMAIN dom.kind : d.kind[i] = dom.kind[i] /\ d.parent[i] = dom.parent[i]
        \/ /\ Len(d.kind) = Len(dom.kind) - 1
           /\ \A i \in DOMAIN d.kind : d.kind[i] = dom.kind[i] /\ d.parent[i] = dom.parent[i]}

NoAnchorRestore == [called |-> FALSE, node |-> NoNode, before |-> InitialPagination]

\* captureReadingAnchor stores the path of the text node it picked (which
\* one is a matter of geometry).
CaptureAnchor(t) ==
    /\ IsText(anchorDom.dom, t)
    /\ anchorDom' = [anchorDom EXCEPT !.identical = TRUE,
                                      !.path = buildNodePathFrom(anchorDom.dom, Article, t),
                                      !.origin = t,
                                      !.captured = TRUE,
                                      !.rerendered = FALSE,
                                      !.last = NoAnchorRestore]
    /\ UNCHANGED <<pageVars, contentVars, readerVars, epub, toc, selected, pathVars, sanVars,
                   shelfVars, urlVars>>

\* {@html renderedHtml} renders the content anew.  identical is history: every
\* content rendered since the capture was the one the path was captured in.
Rerender(d) ==
    /\ anchorDom' = [anchorDom EXCEPT !.dom = d,
                                      !.identical = anchorDom.identical /\ d = anchorDom.dom,
                                      !.rerendered = TRUE,
                                      !.last = NoAnchorRestore]
    /\ UNCHANGED <<pageVars, contentVars, readerVars, epub, toc, selected, pathVars, sanVars,
                   shelfVars, urlVars>>

\* restoreReadingAnchor with an anchor of the chapter shown: it returns when
\* the path resolves to no text node, else sets the page by the offset x
\* measured for the node (one on the last page).
RestoreAnchor(x) ==
    /\ anchorDom.captured
    /\ LET textNode == resolveNodePathFrom(anchorDom.dom, Article, anchorDom.path)
       IN  /\ anchorDom' = [anchorDom EXCEPT !.last = [called |-> TRUE, node |-> textNode,
                                                       before |-> pagination]]
           /\ pagination' = IF textNode = NoNode THEN pagination
                            ELSE setPageByOffset(pagination, x)
    /\ UNCHANGED <<lastCall, contentVars, readerVars, epub, toc, selected, pathVars, sanVars,
                   shelfVars, urlVars>>

InitAnchor ==
    /\ anchorDom \in {[NoDom EXCEPT !.dom = d] : d \in Doms}
    /\ shelf = NoShelf
    /\ resources = NoResources
    /\ epub = NoEpub
    /\ toc = [parsed |-> FALSE, items |-> << >>]
    /\ selected = NoSelection
    /\ pathIn = [basePath |-> << >>, href |-> << >>]
    /\ importPath = NoPath
    /\ readerPath = NoPath
    /\ san = NoSanitizer
    /\ NoBook
    /\ pagination = [pageIndex |-> 1, pageCount |-> 3, viewportWidth |-> MaxViewport]
    /\ lastCall = NoCall
    /\ loading = FALSE
    /\ isVertical = TRUE
    /\ clientWidth = MaxViewport
    /\ ConstructContent

NextAnchor ==
    \/ \E t \in DOMAIN anchorDom.dom.kind : CaptureAnchor(t)
    \/ \E d \in NextDoms(anchorDom.dom) : Rerender(d)
    \/ RestoreAnchor(pagination.viewportWidth * (pagination.pageCount - 1))

SpecAnchor == InitAnchor /\ [][NextAnchor]_vars

\* ============================================================================
\* Reader.svelte: the object URLs of a chapter's assets and of the cover page.
\* resources holds chapterResourceUrls, the URLs created and not revoked
\* (live), the number of URLs created so far, chapterBasePath, hasCover,
\* whether initReader has opened the archive and reached loadChapter, the
\* reads of loadChapter and the reads of resolveChapterAssetUrl in flight,
\* and whether the page was destroyed.
\* ============================================================================

\* Cap on the object URLs created.
MaxUrls == 3

\* Cap on the reads of one kind in flight.
MaxInFlight == 2

\* The base paths of the chapters of a book: '' for a chapter at the root of
\* the archive, else the chapter's directory.
AssetBasePaths == {"", "OEBPS/"}

UrlsOf(seq) == {seq[i] : i \in DOMAIN seq}

\* URL.createObjectURL(blob) followed by chapterResourceUrls.push(url).
createObjectURL(r) ==
    [r EXCEPT !.created = @ + 1,
              !.live = @ \cup {r.created + 1},
              !.chapterResourceUrls = Append(@, r.created + 1)]

revokeChapterResourceUrls(r) ==
    [r EXCEPT !.live = @ \ UrlsOf(r.chapterResourceUrls),
              !.chapterResourceUrls = << >>]

\* loadChapter(index) up to its await or return.  fileOk: the spine item has
\* a manifest item and its file is in the archive (else the call returns at
\* line 87 or 96, before it revokes anything).
loadChapterUrls(r, index, fileOk) ==
    IF r.hasCover /\ index = 0
    THEN createObjectURL(revokeChapterResourceUrls(r))
    ELSE IF ~fileOk
    THEN r
    ELSE [revokeChapterResourceUrls(r) EXCEPT !.reading = @ + 1]

\* initReader resumes with the book and the archive and calls loadChapter
\* for the initial index; its awaits may end after the page was destroyed.
InitReaderLoads(cover, index, fileOk) ==
    /\ ~resources.initialised
    /\ resources' = loadChapterUrls([resources EXCEPT !.initialised = TRUE,
                                                       !.hasCover = cover],
                                    IF cover THEN 0 ELSE index, fileOk)
    /\ UNCHANGED <<pageVars, contentVars, readerVars, epub, toc, selected, pathVars,
                   sanVars, shelfVars, anchorVars>>

\* prevChapter, nextChapter and onSelectToc: loadChapter(index) from the
\* controls of the mounted page.
LoadChapterFromControls(index, fileOk) ==
    /\ resources.initialised
    /\ ~resources.destroyed
    /\ resources.created < MaxUrls
    /\ resources.reading < MaxInFlight
    /\ resources' = loadChapterUrls(resources, index, fileOk)
    /\ UNCHANGED <<pageVars, contentVars, readerVars, epub, toc, selected, pathVars,
                   sanVars, shelfVars, anchorVars>>

\* chapterFile.async('string') settles: lines 103-104 when it resolves.
ChapterFileRead(ok, basePath) ==
    /\ resources.reading > 0
    /\ resources' = [resources EXCEPT !.reading = @ - 1,
                                      !.chapterBasePath = IF ok THEN basePath ELSE @]
    /\ UNCHANGED <<pageVars, contentVars, readerVars, epub, toc, selected, pathVars,
                   sanVars, shelfVars, anchorVars>>

\* resolveChapterAssetUrl(relativePath), called by ReaderContent while it
\* prepares a chapter, for a path whose file is in the archive: up to its
\* await.  (Without an archive or with chapterBasePath '' it returns null,
\* as it does for a path with no file.)
resolveChapterAssetUrl ==
    /\ resources.initialised
    /\ ~resources.destroyed
    /\ resources.chapterBasePath # ""
    /\ resources.resolving < MaxInFlight
    /\ resources' = [resources EXCEPT !.resolving = @ + 1]
    /\ UNCHANGED <<pageVars, contentVars, readerVars, epub, toc, selected, pathVars,
                   sanVars, shelfVars, anchorVars>>

\* assetFile.async('blob') resolves: lines 216-218.
AssetBlobRead ==
    /\ resources.resolving > 0
    /\ resources.created < MaxUrls
    /\ resources' = createObjectURL([resources EXCEPT !.resolving = @ - 1])
    /\ UNCHANGED <<pageVars, contentVars, readerVars, epub, toc, selected, pathVars,
                   sanVars, shelfVars, anchorVars>>

\* onDestroy.
DestroyReader ==
    /\ ~resources.destroyed
    /\ resources' = [revokeChapterResourceUrls(resources) EXCEPT !.destroyed = TRUE]
    /\ UNCHANGED <<pageVars, contentVars, readerVars, epub, toc, selected, pathVars,
                   sanVars, shelfVars, anchorVars>>

InitUrls ==
    /\ resources = NoResources
    /\ shelf = NoShelf
    /\ anchorDom = NoDom
    /\ epub = NoEpub
    /\ toc = [parsed |-> FALSE, items |-> << >>]
    /\ selected = NoSelection
    /\ pathIn = [basePath |-> << >>, href |-> << >>]
    /\ importPath = NoPath
    /\ readerPath = NoPath
    /\ san = NoSanitizer
    /\ NoBook
    /\ pagination = InitialPagination
    /\ lastCall = NoCall
    /\ loading = TRUE
    /\ isVertical = FALSE
    /\ clientWidth = 0
    /\ ConstructContent

NextUrls ==
    \/ \E cover, fileOk \in BOOLEAN : \E index \in 0 .. 1 : InitReaderLoads(cover, index, fileOk)
    \/ \E index \in 0 .. 1 : \E fileOk \in BOOLEAN : LoadChapterFromControls(index, fileOk)
    \/ \E ok \in BOOLEAN : \E basePath \in AssetBasePaths : ChapterFileRead(ok, basePath)
    \/ resolveChapterAssetUrl
    \/ AssetBlobRead
    \/ DestroyReader

SpecUrls == InitUrls /\ [][NextUrls]_vars

\* ============================================================================
\* Claims
\* ============================================================================

\* C1: a run of preprocessChapterHtml that a newer run has superseded never
\* assigns its output to renderedHtml: whenever a sanitised document is
\* assigned, the assigning run holds the latest token, and the document is
\* that of the chapter the component currently shows.
C1_OnlyLatestRunApplies ==
    lastApplied.valid =>
        /\ lastApplied.token = lastApplied.latest
        /\ lastApplied.chapter = chapterHtml

\* An older run was overtaken while it waited for an asset and returned at its
\* token check, and the newer run's output has just been applied.
C1_Witness ==
    /\ lastApplied.valid
    /\ lastApplied.chapter # 0
    /\ runs[lastApplied.token].pc = "measure"
    /\ \E t \in DOMAIN runs : t < lastApplied.token /\ runs[t].pc = "discarded"

\* C2: once no call of loadChapter is reading any more and the most recent
\* call has shown its chapter, the reader's currentIndex, chapterHtml and
\* cover flag are those of that most recently requested chapter.
C2_LastRequestWins ==
    (/\ loads # << >>
     /\ \A n \in DOMAIN loads : loads[n].st # "reading"
     /\ loads[Len(loads)].st = "applied") =>
        LET index == loads[Len(loads)].index
            cover == hasCover /\ index = 0
        IN  /\ currentIndex = index
            /\ showCoverPage = cover
            /\ chapterHtml = IF cover THEN 0
                             ELSE ChapterOfSpine(IF hasCover THEN index - 1 ELSE index)

\* C3: after any sequence of controller calls with arbitrary arguments,
\* pageCount >= 1 and 0 <= pageIndex <= pageCount - 1.
C3_PageIndexInRange ==
    /\ pagination.pageCount >= 1
    /\ 0 <= pagination.pageIndex
    /\ pagination.pageIndex <= pagination.pageCount - 1

\* A re-layout has just shrunk the page count below the page held before.
C3_Witness ==
    /\ lastCall.op = "recalcLayout"
    /\ lastCall.b > 0
    /\ lastCall.before.pageIndex > pagination.pageCount - 1

\* C4: restoreReadingAnchor never sets the page from an anchor whose node path
\* was captured in another chapter's content than the one rendered.
C4_AnchorNeverCrossesChapters ==
    (lastRestore.called /\ lastRestore.target >= 0) =>
        lastRestore.anchor.origin = lastRestore.rendered.chapter

\* C5: restoreReadingAnchor called with no anchor, or with an anchor of
\* another spine index, leaves the pagination state and the anchor as they were.
C5_RestoreNoOpAcrossChapters ==
    (/\ lastRestore.called
     /\ \/ lastRestore.anchor = NoAnchor
        \/ lastRestore.anchor.spineIndex # lastRestore.spineIndex) =>
        /\ lastRestore.after = lastRestore.before
        /\ readingAnchor = lastRestore.anchor

\* restoreReadingAnchor was called in vertical mode with an anchor of another
\* spine index whose path resolves in the rendered content, on a layout with
\* more than one page.
C5_Witness ==
    /\ lastRestore.called
    /\ isVertical
    /\ lastRestore.anchor # NoAnchor
    /\ lastRestore.anchor.spineIndex # lastRestore.spineIndex
    /\ resolveNodePath(lastRestore.rendered, lastRestore.anchor.nodePath) >= 0
    /\ lastRestore.before.pageCount > 1

\* C6: when the anchor resolves, the page restoreReadingAnchor leaves is the
\* page holding the anchored character, floor(content-space offset /
\* viewportWidth) clamped, whatever the page index was before.
C6_RestoredPageHoldsAnchor ==
    (lastRestore.called /\ lastRestore.target >= 0
        /\ lastRestore.after.viewportWidth > 0) =>
        lastRestore.after.pageIndex =
            ClampIndex(FloorDiv(ContentLeft(lastRestore.rendered, lastRestore.target),
                                lastRestore.after.viewportWidth),
                       lastRestore.after.pageCount)

\* C7: recalcLayout(contentWidth >= 0, viewportWidth > 0) leaves pageCount the
\* least n >= 1 with n * viewportWidth >= max(contentWidth, viewportWidth),
\* stores viewportWidth, and changes pageIndex only by clamping it.
C7_RecalcLayoutPageCount ==
    (lastCall.op = "recalcLayout" /\ lastCall.a >= 0 /\ lastCall.b > 0) =>
        LET widest == Max(lastCall.a, lastCall.b)
            n == pagination.pageCount
        IN  /\ n >= 1
            /\ n * lastCall.b >= widest
            /\ (n - 1) * lastCall.b < widest
            /\ pagination.viewportWidth = lastCall.b
            /\ pagination.pageIndex =
                  IF lastCall.before.pageIndex > n - 1 THEN n - 1
                  ELSE lastCall.before.pageIndex

\* recalcLayout with a content width that is no multiple of the viewport
\* width, and a page index it had to clamp.
C7_Witness ==
    /\ lastCall.op = "recalcLayout"
    /\ lastCall.b > 0
    /\ lastCall.a > lastCall.b
    /\ lastCall.a % lastCall.b # 0
    /\ pagination.pageIndex # lastCall.before.pageIndex

\* C8: recalcLayout with viewportWidth <= 0 resets the state to
\* {viewportWidth: 0, pageCount: 1, pageIndex: 0}.
C8_RecalcLayoutReset ==
    (lastCall.op = "recalcLayout" /\ lastCall.b <= 0) =>
        pagination = [pageIndex |-> 0, pageCount |-> 1, viewportWidth |-> 0]

\* recalcLayout(contentWidth > 0, viewportWidth <= 0) on a state that was on a
\* later page of several.
C8_Witness ==
    /\ lastCall.op = "recalcLayout"
    /\ lastCall.b <= 0
    /\ lastCall.a > 0
    /\ lastCall.before.pageIndex > 0

\* C9: extractToc returns the result of the first stage, in the order
\* navigation document, NCX, heuristic HTML scan, spine fallback, that yields
\* a non-empty result; when the navigation document yields entries, no entry
\* that only the NCX resolves is in the TOC.
C9_FirstNonEmptyStageWins ==
    toc.parsed =>
        /\ \/ NavResult # << >> /\ toc.items = NavResult
           \/ NavResult = << >> /\ NcxResult # << >> /\ toc.items = NcxResult
           \/ /\ NavResult = << >> /\ NcxResult = << >>
              /\ HtmlResult # << >> /\ toc.items = HtmlResult
           \/ /\ NavResult = << >> /\ NcxResult = << >> /\ HtmlResult = << >>
              /\ toc.items = SpineResult
        /\ NavResult # << >> =>
              Hrefs(toc.items) \cap (Hrefs(NcxResult) \ Hrefs(NavResult)) = {}

\* An archive was imported whose navigation document yields entries and
\* whose NCX resolves an entry the navigation document does not.
C9_Witness ==
    /\ toc.parsed
    /\ NavResult # << >>
    /\ Hrefs(NcxResult) \ Hrefs(NavResult) # {}

\* The archive has no navigation document, NCX or contents page that yields
\* an entry.
SpineFallbackOnly ==
    NavResult = << >> /\ NcxResult = << >> /\ HtmlResult = << >>

\* Every spine idref names a manifest item, no idref occurs twice, no two
\* manifest items share an href, and no manifest href has a fragment.
SpineWellFormed ==
    /\ \A k \in 1 .. Len(epub.spine) :
          \E m \in 1 .. Len(epub.manifest) : epub.manifest[m].id = epub.spine[k]
    /\ \A j, k \in 1 .. Len(epub.spine) : epub.spine[j] = epub.spine[k] => j = k
    /\ \A m, n \in 1 .. Len(epub.manifest) :
          epub.manifest[m].href = epub.manifest[n].href => m = n
    /\ \A m \in 1 .. Len(epub.manifest) : IndexOf(epub.manifest[m].href, "#") = 0

\* C10 as stated: with a spine of N items and no nav, NCX or heuristic content,
\* the TOC has exactly N entries and the i-th entry's href resolves back to
\* spine index i.
C10_SpineFallbackRoundTrip ==
    (toc.parsed /\ SpineFallbackOnly) =>
        /\ Len(toc.items) = Len(epub.spine)
        /\ selected.entry >= 1 => selected.spineIndex = selected.entry - 1

\* C10 amended: the same, for an archive whose spine idrefs are distinct and
\* all name manifest items, and whose manifest hrefs are distinct and carry no
\* fragment.
C10_SpineFallbackRoundTripWellFormed ==
    (toc.parsed /\ SpineFallbackOnly /\ SpineWellFormed) =>
        /\ Len(toc.items) = Len(epub.spine)
        /\ selected.entry >= 1 => selected.spineIndex = selected.entry - 1

\* The third entry of the spine-derived TOC of a well-formed archive with
\* three spine items was selected.
C10_Witness ==
    /\ toc.parsed
    /\ SpineFallbackOnly
    /\ SpineWellFormed
    /\ Len(epub.spine) = 3
    /\ selected.entry = 3

\* C11 as stated: whenever the spine is non-empty, the TOC extractToc returns
\* is non-empty.
C11_TocNonEmpty ==
    (toc.parsed /\ epub.spine # << >>) => toc.items # << >>

\* C11 amended: whenever at least one spine idref names a manifest item, the
\* TOC extractToc returns is non-empty.
C11_TocNonEmptyResolvableSpine ==
    (/\ toc.parsed
     /\ \E k \in 1 .. Len(epub.spine) : SpineLookup[k].found) =>
        toc.items # << >>

\* An archive was imported in which no navigation document, NCX or contents
\* page yields an entry, and only the first of two spine idrefs names a
\* manifest item.
C11_Witness ==
    /\ toc.parsed
    /\ SpineFallbackOnly
    /\ Len(epub.spine) = 2
    /\ SpineLookup[1].found
    /\ ~SpineLookup[2].found

\* C12: every entry of the stored TOC, at any depth, has an href whose part
\* before the fragment is the href of a manifest item that exactly one spine
\* position names.
C12_EveryHrefResolves ==
    toc.parsed =>
        \A i \in 1 .. Len(Flatten(toc.items)) :
            LET base == BeforeFirst(Flatten(toc.items)[i].href, "#")
            IN  Cardinality({k \in 1 .. Len(epub.spine) :
                    \E m \in 1 .. Len(epub.manifest) :
                        /\ epub.manifest[m].href = base
                        /\ epub.manifest[m].id = epub.spine[k]}) = 1

\* C13: the path resolvePath returns has no segment equal to '.' or '..' and
\* no empty segment.
C13_NoDotSegments ==
    importPath.done =>
        \A i \in 1 .. Len(Segments(importPath.path)) :
            Segments(importPath.path)[i] \notin {<< >>, <<".">>, <<".", ".">>}

\* resolvePath has returned a non-empty path for a base path and href that
\* together begin with a '..' that has nothing to pop and hold a '.'.
C13_Witness ==
    /\ importPath.done
    /\ importPath.path # << >>
    /\ LET parts == Split(pathIn.basePath \o pathIn.href, "/")
       IN  /\ parts[1] = <<".", ".">>
           /\ \E i \in 1 .. Len(parts) : parts[i] = <<".">>

\* C14: resolvePath returns the segments the stack algorithm retains, joined
\* by '/'; resolve('a/b/', '../c') = 'a/c' and resolve('a/', '../../x') = 'x'.
C14_EqualsStackReference ==
    importPath.done =>
        /\ importPath.path =
              Join(StackOf(Split(pathIn.basePath \o pathIn.href, "/")), "/")
        /\ pathIn.basePath = <<"a", "/", "b", "/">> /\ pathIn.href = <<".", ".", "/", "c">>
              => importPath.path = <<"a", "/", "c">>
        /\ pathIn.basePath = <<"a", "/">> /\ pathIn.href = <<".", ".", "/", ".", ".", "/", "x">>
              => importPath.path = <<"x">>

\* resolve('a/', '../../x') has been computed.
C14_Witness ==
    /\ importPath.done
    /\ pathIn.basePath = <<"a", "/">>
    /\ pathIn.href = <<".", ".", "/", ".", ".", "/", "x">>

\* C15: parseEpub.ts and Reader.svelte resolve every (basePath, href) to the
\* same path, and the path the spine lookup holds for a chapter is the path
\* getChapterPath computes for it.
C15_SameResolution ==
    (importPath.done /\ readerPath.done) =>
        /\ importPath.path = readerPath.path
        /\ importPath.chapter = readerPath.chapter

\* Both sides have resolved an href that climbs out of a directory of the
\* base path to a chapter beside it.
C15_Witness ==
    /\ importPath.done
    /\ readerPath.done
    /\ importPath.chapter # << >>
    /\ \E i \in 1 .. Len(Split(pathIn.href, "/")) :
          Split(pathIn.href, "/")[i] = <<".", ".">>
    /\ IndexOf(pathIn.basePath, "/") > 1
    /\ Len(importPath.chapter) < Len(pathIn.basePath \o pathIn.href) - 3

\* C16: for every <img> of the chapter with a non-empty src: if the src is an
\* absolute path or a data, blob or other protocol-qualified URL,
\* resolveAssetUrl is never
\* called for it and the element is in the output as it was; otherwise
\* resolveAssetUrl is called for it once, the element is absent from the
\* output when it returned null, and its src is the returned URL when not.
C16_ImgResolution ==
    san.pc = "done" =>
        \A n \in 1 .. Len(san.input) :
            (san.input[n].tag = "img" /\ san.input[n].src # << >>) =>
                LET src == san.input[n].src
                    calls == CallsFor(<<n, 0>>)
                IN  IF src[1] = "/" \/ ProtocolQualified(src)
                    THEN calls = << >> /\ san.doc[n] = san.input[n]
                    ELSE /\ Len(calls) = 1
                         /\ calls[1].path = src
                         /\ ~calls[1].ok => ~InOutput(n)
                         /\ calls[1].ok =>
                              InOutput(n) /\ san.doc[n].src = Url("resolved")

\* The image of an <image> element is relative: its href, or without href its
\* xlink:href, is neither empty nor an absolute URL.
RelativeImage(image) ==
    ImageHref(image) # << >> /\ ~isAbsoluteUrl(ImageHref(image))

\* C17: for every SVG <image> whose reference is relative: when resolution
\* fails the enclosing <svg> is absent from the output if there is one, else
\* the image alone; when it succeeds href and xlink:href both are the
\* resolved URL.  Nothing else is removed by the image loop.
C17_SvgImageResolution ==
    san.pc = "done" =>
        /\ \A n \in 1 .. Len(san.input) : \A k \in 1 .. Len(san.input[n].images) :
              RelativeImage(san.input[n].images[k]) =>
                  LET calls == CallsFor(<<n, k>>)
                  IN  /\ Len(calls) = 1
                      /\ calls[1].path = ImageHref(san.input[n].images[k])
                      /\ ~calls[1].ok => ~ImageInOutput(n, k)
                      /\ (~calls[1].ok /\ san.input[n].tag = "svg") => san.doc[n].removed
                      /\ calls[1].ok =>
                            /\ san.doc[n].images[k].href = Url("resolved")
                            /\ san.doc[n].images[k].xlink = Url("resolved")
        /\ \A n \in 1 .. Len(san.input) :
              san.input[n].tag \in {"svg", "image"} =>
                  (InOutput(n) <=>
                      \A k \in 1 .. Len(san.input[n].images) :
                          \A i \in 1 .. Len(CallsFor(<<n, k>>)) : CallsFor(<<n, k>>)[i].ok)
        /\ \A n \in 1 .. Len(san.input) : \A k \in 1 .. Len(san.input[n].images) :
              san.input[n].tag = "svg" => ~san.doc[n].images[k].removed

\* A chapter has been sanitised that holds an <svg> of two images, the first
\* resolved and the second not, and an <image> outside any <svg> that did not
\* resolve.
C17_Witness ==
    /\ san.pc = "done"
    /\ \E n \in 1 .. Len(san.input) :
          /\ san.input[n].tag = "svg"
          /\ Len(san.input[n].images) = 2
          /\ CallsFor(<<n, 1>>) # << >> /\ CallsFor(<<n, 1>>)[1].ok
          /\ CallsFor(<<n, 2>>) # << >> /\ ~CallsFor(<<n, 2>>)[1].ok
    /\ \E n \in 1 .. Len(san.input) :
          /\ san.input[n].tag = "image"
          /\ CallsFor(<<n, 1>>) # << >> /\ ~CallsFor(<<n, 1>>)[1].ok

\* C20: at most one invocation of measureLayoutRestoreAnchorAndApply is
\* suspended between its call and its measurement at any time.
C20_OneMeasurePassInFlight ==
    Cardinality({t \in DOMAIN runs : runs[t].pc = "measure"}) <= 1

\* C18: no two invocations of handlePendingFragment are started for one
\* request id, and an invocation that continues after a newer request has
\* been issued neither jumps nor calls onFragmentHandled.
C18_StaleFragmentNeverFires ==
    /\ \A g, h \in DOMAIN frags : frags[g].requestId = frags[h].requestId => g = h
    /\ (lastFragment.called /\ lastFragment.startedFor # pendingFragmentRequestId) =>
          ~lastFragment.jumped /\ ~lastFragment.signalled

\* C19: handlePendingFragment jumps or calls onFragmentHandled only while
\* loading is false, there is no error, and the invocation of
\* preprocessChapterHtml for the current chapterRenderId has assigned
\* renderedHtml.
C19_FragmentWaitsForContent ==
    (lastFragment.called /\ (lastFragment.jumped \/ lastFragment.signalled)) =>
        /\ ~loading
        /\ error = NoError
        /\ runs[processingToken].pc # "img"

\* C21: after onDestroy no continuation of measureLayoutRestoreAnchorAndApply
\* runs measureLayout, restoreReadingAnchor and applyTransform on the
\* component, also not one that was suspended, or whose sanitisation run was
\* suspended, when the component was destroyed.
C21_NoPassAfterDestroy ==
    destroyed => ~lastRestore.called

\* C22: whatever resolveAssetUrl answers for an asset, the invocation of
\* preprocessChapterHtml that asked leaves its asset loop in one of two ways:
\* it assigns the sanitised chapter to renderedHtml, or it returns at the
\* token check because a newer invocation has been started.
C22_AssetFailureAbsorbed ==
    \A t \in DOMAIN runs :
        runs[t].pc # "img" =>
            \/ runs[t].pc \in {"measure", "done"}
            \/ runs[t].pc = "discarded" /\ t < processingToken

\* The last step was a call of loadChapter that ended as `st`.
LoadCalled(st) ==
    /\ Len(loads') = Len(loads) + 1
    /\ loads'[Len(loads')].st = st

\* C23: a call of loadChapter that fails because the spine item has no
\* manifest item or the archive no such file sets error and leaves
\* currentIndex, chapterHtml and chapterRenderId as they were; loading is
\* true only while a load is still reading the archive; a call for a chapter
\* that exists clears error, and when its file has been read the chapter is
\* applied and error is not set again.
C23_FailedLoadKeepsSession ==
    /\ [][/\ LoadCalled("failed") =>
               /\ error' \in {"Chapter metadata is missing.",
                              "Chapter file not found in EPUB archive."}
               /\ currentIndex' = currentIndex
               /\ chapterHtml' = chapterHtml
               /\ chapterRenderId' = chapterRenderId
          /\ LoadCalled("reading") => error' = NoError
          /\ \A n \in DOMAIN loads :
                (loads[n].st = "reading" /\ n \in DOMAIN loads' /\ loads'[n].st = "applied") =>
                    /\ currentIndex' = loads[n].index
                    /\ chapterRenderId' = chapterRenderId + 1
                    /\ chapterHtml' # 0
                    /\ error' = error
                    /\ ~loading']_vars
    /\ [](loading => (loads = << >> \/ \E n \in DOMAIN loads : loads[n].st = "reading"))

\* A load failed, and a load called after it has been applied: its chapter
\* is the current one and there is no error.
C23_Witness ==
    \E n, k \in DOMAIN loads :
        /\ n < k
        /\ loads[n].st = "failed"
        /\ loads[k].st = "applied"
        /\ currentIndex = loads[k].index
        /\ error = NoError
        /\ ~loading

\* The file of import n lacks the container descriptor or the content
\* document the descriptor names.
MissingContainer(n) ==
    shelf.imports[n].file.container = "absent" \/ ~shelf.imports[n].file.hasOpf

\* C24: for a file without META-INF/container.xml, or without the OPF named
\* there, parseEpub returns no Book (saveBook is never called for the
\* import), and the step in which the import fails leaves the store and the
\* shelf list as they were, sets the error message and ends loading.
C24_MissingContainerAbortsImport ==
    /\ [](\A n \in DOMAIN shelf.imports :
            MissingContainer(n) => shelf.imports[n].pc \in {"parsing", "failed"})
    /\ [][\A n \in DOMAIN shelf.imports :
            (MissingContainer(n) /\ shelf.imports[n].pc = "parsing"
               /\ shelf'.imports[n].pc = "failed") =>
                /\ shelf'.stored = shelf.stored
                /\ shelf'.books = shelf.books
                /\ shelf'.error = "Failed to load EPUB file."
                /\ ~shelf'.loading]_vars

\* The import of a file whose container descriptor names an OPF that the
\* archive does not hold has failed, over a shelf that lists a stored book.
C24_Witness ==
    /\ shelf.books # << >>
    /\ \E n \in DOMAIN shelf.imports :
          /\ shelf.imports[n].pc = "failed"
          /\ shelf.imports[n].file.container = "ok"
          /\ ~shelf.imports[n].file.hasOpf
    /\ shelf.error # NULL
    /\ ~shelf.loading

\* C25: for every archive whose container.xml names an OPF with two manifest
\* items, an XHTML chapter that is the spine and a navigation document with
\* one link to that chapter, the Book parseEpub returns has one spine item
\* and one TOC entry, and the entry's href without its fragment is the href
\* of a manifest item whose id is the idref at spine index 0.
C25_MinimalArchiveParses ==
    \A n \in DOMAIN shelf.imports :
        (shelf.imports[n].pc \in {"saving", "done"}
           /\ shelf.imports[n].file \in WellFormedFiles) =>
            LET parsed == shelf.imports[n].book
                hrefWithoutHash == BeforeFirst(parsed.toc[1].href, "#")
            IN  /\ Len(parsed.spine) = 1
                /\ Len(parsed.toc) = 1
                /\ \E i \in DOMAIN parsed.manifest :
                      /\ parsed.manifest[i].href = hrefWithoutHash
                      /\ parsed.manifest[i].id = parsed.spine[1]
                /\ getSpineIndexByHref(parsed.manifest, parsed.spine, parsed.toc[1].href) = 0

\* An archive with its OPF in a directory, its chapter in a subdirectory and
\* a link with a fragment has been parsed and stored.
C25_Witness ==
    \E n \in DOMAIN shelf.imports :
        /\ shelf.imports[n].pc = "done"
        /\ shelf.imports[n].file \in WellFormedFiles
        /\ shelf.imports[n].file.opfPath # OpfName
        /\ shelf.imports[n].book.toc[1].href = Href("b") \o <<"#", "s">>
        /\ shelf.books = <<n>>

\* C26: every invocation of preprocessChapterHtml takes, in the step that
\* starts it, a token greater than processingToken was, which becomes
\* processingToken; no other step changes processingToken.  So the tokens
\* issued are 1 .. processingToken, one per invocation, exactly one of them
\* is the latest, and the token of every other invocation is smaller.
C26_TokenStrictlyIncreases ==
    /\ [](/\ processingToken = Len(runs)
          /\ Cardinality({t \in DOMAIN runs : TokenIsLatest(t, processingToken)}) = 1
          /\ \A t \in DOMAIN runs :
                ~TokenIsLatest(t, processingToken) => t < processingToken)
    /\ [][/\ Len(runs') >= Len(runs)
          /\ Len(runs') > Len(runs) =>
                /\ Len(runs') = Len(runs) + 1
                /\ processingToken' > processingToken
                /\ runs'[Len(runs')].pc \in {"img", "measure", "done"}
          /\ Len(runs') = Len(runs) => processingToken' = processingToken]_vars

\* Two invocations are suspended at once: the older in its asset loop, the
\* latest in its measurement pass.
C26_Witness ==
    /\ processingToken >= 3
    /\ runs[processingToken].pc = "measure"
    /\ runs[processingToken - 1].pc = "img"

\* The entries normalizeTocLinks yields for the navigation document and for
\* the heuristic scan of the archive imported, with their spine indices.
NavItems == extractNavToc(epub, SpineLookup)
HtmlItems == extractFallbackHtmlToc(epub, SpineLookup)

\* No two entries of items have the same spine index.
DistinctSpineTargets(items) ==
    \A i, j \in DOMAIN items : items[i].spineIndex = items[j].spineIndex => i = j

\* C27: in the entries normalizeTocLinks yields, for the navigation document
\* and for the heuristic scan alike, no two entries have the same resolved
\* spine index.
C27_OneEntryPerSpineTarget ==
    toc.parsed => DistinctSpineTargets(NavItems) /\ DistinctSpineTargets(HtmlItems)

\* The entries of items are in ascending order of spine index.
AscendingSpineIndex(items) ==
    \A i, j \in DOMAIN items : i < j => items[i].spineIndex <= items[j].spineIndex

\* The stored TOC holds the entries of items in their order, with the ids
\* toc-1 .. toc-n.
StoredInOrder(items) ==
    /\ Len(toc.items) = Len(items)
    /\ \A i \in DOMAIN items :
          /\ toc.items[i].id = TocId(<<i>>)
          /\ toc.items[i].href = items[i].href
          /\ toc.items[i].label = items[i].title

\* C28: the entries normalizeTocLinks yields for the navigation document and
\* for the heuristic scan are in ascending order of spine index; a TOC taken
\* from either holds them in that order with the ids toc-1 .. toc-n.
C28_SortedWithSequentialIds ==
    toc.parsed =>
        /\ AscendingSpineIndex(NavItems)
        /\ AscendingSpineIndex(HtmlItems)
        /\ NavItems # << >> => StoredInOrder(NavItems)
        /\ (NavItems = << >> /\ NcxResult = << >> /\ HtmlItems # << >>) =>
              StoredInOrder(HtmlItems)

\* A navigation document that links to the second spine item before the
\* first was imported: the first entry of the TOC is the first spine item.
C28_Witness ==
    /\ toc.parsed
    /\ epub.spine = <<"a", "b">>
    /\ Len(NavItems) = 3
    /\ toc.items[1].href = Href("a")
    /\ toc.items[2].href = Href("b") \o <<"#", "s">>
    /\ toc.items[3].id = TocId(<<3>>)

\* The NCX document of the archive imported, and the navPoints of its navMap
\* by the position path the code turns into an id (toc-2-1 is <<2, 1>>).
NcxSource == CHOOSE f \in epub.files : f.navMap
NcxRead == (\E f \in epub.files : f.navMap) /\ epub.manifest # << >>

RECURSIVE NavPointPaths(_, _)
NavPointPaths(els, parentId) ==
    UNION {{Append(parentId, i)} \cup NavPointPaths(els[i].children, Append(parentId, i)) :
              i \in DOMAIN els}

RECURSIVE NavPointAt(_, _)
NavPointAt(els, path) ==
    IF Len(path) = 1 THEN els[path[1]]
    ELSE NavPointAt(els[path[1]].children, Tail(path))

NcxPaths == NavPointPaths(NcxSource.navPoints, << >>)
NcxPoint(path) == NavPointAt(NcxSource.navPoints, path)

\* The navPoint resolves to a spine index, and the target it resolves to.
NcxResolves(el) ==
    /\ el.src # << >>
    /\ PathToSpineIndex(SpineLookup,
                        resolvePath(dirname(NcxSource.path), StripHashAndQuery(el.src))) >= 0
NcxTarget(el) == normalizeNcxHref(el.src, NcxSource.path, SpineLookup)

\* The navPoint at path, or one of its descendants, resolves.
NcxSubtreeResolves(path) ==
    \E q \in NcxPaths : /\ Len(q) >= Len(path)
                        /\ SubSeq(q, 1, Len(path)) = path
                        /\ NcxResolves(NcxPoint(q))

\* The navPoint at path is a resolvable leaf that repeats the resolved target
\* of an earlier sibling.
NcxDuplicateSiblingLeaf(path) ==
    /\ NcxPoint(path).children = << >>
    /\ NcxResolves(NcxPoint(path))
    /\ \E q \in NcxPaths :
          /\ Len(q) = Len(path)
          /\ SubSeq(q, 1, Len(q) - 1) = SubSeq(path, 1, Len(path) - 1)
          /\ q[Len(q)] < path[Len(path)]
          /\ NcxResolves(NcxPoint(q))
          /\ NcxTarget(NcxPoint(q)) = NcxTarget(NcxPoint(path))

\* The entry extractNcxToc returns for the navPoint at path, if it is retained.
NcxRetained(path) == \E k \in DOMAIN Flatten(NcxResult) : Flatten(NcxResult)[k].id = TocId(path)
NcxEntry(path) ==
    Flatten(NcxResult)[CHOOSE k \in DOMAIN Flatten(NcxResult) :
                          Flatten(NcxResult)[k].id = TocId(path)]

\* The children of the entry of the navPoint at path (of the result for the
\* empty path) are the retained navPoints right below it, in navMap order.
NcxChildrenInOrder(path, children) ==
    /\ \A q \in NcxPaths :
          (Len(q) = Len(path) + 1 /\ SubSeq(q, 1, Len(path)) = path /\ NcxRetained(q))
              => \E k \in DOMAIN children : children[k].id = TocId(q)
    /\ \A k \in DOMAIN children :
          /\ Len(children[k].id.path) = Len(path) + 1
          /\ SubSeq(children[k].id.path, 1, Len(path)) = path
    /\ \A j, k \in DOMAIN children :
          j < k => children[j].id.path[Len(path) + 1] < children[k].id.path[Len(path) + 1]

\* C29: extractNcxToc drops a navPoint only if neither it nor any descendant
\* resolves to a spine index, duplicate sibling leaves aside; every retained
\* navPoint is a child of the entry of its parent navPoint, which is retained,
\* and siblings keep their navMap order.
C29_NcxKeepsResolvableBranches ==
    NcxRead =>
        /\ \A path \in NcxPaths :
              ~NcxRetained(path) =>
                  ~NcxSubtreeResolves(path) \/ NcxDuplicateSiblingLeaf(path)
        /\ NcxChildrenInOrder(<< >>, NcxResult)
        /\ \A path \in NcxPaths :
              NcxRetained(path) => NcxChildrenInOrder(path, NcxEntry(path).children)

\* C30: among the entries extractNcxToc returns no two sibling leaves have the
\* same resolved target, and a resolvable leaf navPoint is left out only when
\* an earlier sibling has the identical resolved target.
C30_NcxDedupeAmongSiblingsOnly ==
    NcxRead =>
        /\ \A path \in NcxPaths \cup {<< >>} :
              LET children == IF path = << >> THEN NcxResult
                              ELSE IF NcxRetained(path) THEN NcxEntry(path).children
                              ELSE << >>
              IN  \A j, k \in DOMAIN children :
                      /\ children[j].children = << >>
                      /\ children[k].children = << >>
                      /\ children[j].href = children[k].href
                      => j = k
        /\ \A path \in NcxPaths :
              /\ NcxPoint(path).children = << >>
              /\ NcxResolves(NcxPoint(path))
              /\ ~NcxRetained(path)
              => NcxDuplicateSiblingLeaf(path)

\* The spine index a link of the document at sourcePath resolves to (-1 for
\* none), and the href the TOC is to store for it: the manifest href of that
\* spine item, then the fragment of the link.
LinkSpineIndex(href, sourcePath) ==
    IF href = << >> THEN -1
    ELSE LET index == PathToSpineIndex(SpineLookup,
                          resolvePath(dirname(sourcePath), StripHashAndQuery(href)))
         IN  IF HasManifestHref(SpineLookup, index) THEN index ELSE -1
LinkFragment(href) ==
    IF IndexOf(href, "#") = 0 THEN << >> ELSE SubSeq(href, IndexOf(href, "#"), Len(href))
StoredHref(href, sourcePath) ==
    ManifestHref(SpineLookup, LinkSpineIndex(href, sourcePath)) \o LinkFragment(href)

\* The links extractNavToc hands to normalizeTocLinks, and their document.
NavSourcePath == resolvePath(epub.basePath, Href("nav"))
NavLinks ==
    IF HasFile(epub.files, NavSourcePath)
    THEN SelectSeq(ZipFile(epub.files, NavSourcePath).anchors, LAMBDA a : a.inNav)
    ELSE << >>

\* The entry is what some qualifying link of the document at sourcePath is
\* stored as.
StoredFor(item, links, sourcePath) ==
    \E i \in DOMAIN links :
        /\ HtmlHref(links[i].href)
        /\ LinkSpineIndex(links[i].href, sourcePath) = item.spineIndex
        /\ item.href = StoredHref(links[i].href, sourcePath)

IsChapterLabel(label) == label.text = "Chapter" /\ label.n >= 1

\* C32: every entry of the TOC stored has a non-empty label, and the entry of
\* a link or navPoint without display text is labelled `Chapter N`.
C32_LabelNeverEmpty ==
    toc.parsed =>
        /\ \A k \in DOMAIN Flatten(toc.items) : Flatten(toc.items)[k].label.text # ""
        /\ \A k \in DOMAIN NavItems :
              (\A i \in DOMAIN NavLinks :
                  (/\ HtmlHref(NavLinks[i].href)
                   /\ LinkSpineIndex(NavLinks[i].href, NavSourcePath) >= 0
                   /\ NavItems[k].href = StoredHref(NavLinks[i].href, NavSourcePath))
                      => Trim(NavLinks[i].text) = "")
                  => NavItems[k].title = ChapterLabel(NavItems[k].spineIndex + 1)
        /\ NcxRead =>
              \A path \in NcxPaths :
                  (NcxRetained(path) /\ Trim(NcxPoint(path).label) = "")
                      => IsChapterLabel(NcxEntry(path).label)

\* The page that holds pixel offset x when pages are vw wide: the q with
\* q * vw <= x < (q + 1) * vw, brought into [0, count - 1].
PageOfOffset(x, vw, count) ==
    IF x < 0 THEN 0
    ELSE IF x >= count * vw THEN count - 1
    ELSE CHOOSE q \in 0 .. (count - 1) : q * vw <= x /\ x < (q + 1) * vw

\* C33: setPageByOffset(x) sets pageIndex to floor(x / viewportWidth) clamped
\* into [0, pageCount - 1], for negative offsets and offsets beyond the content
\* too, and leaves pageCount and viewportWidth as they were; with
\* viewportWidth 0 the state stays {viewportWidth: 0, pageCount: 1,
\* pageIndex: 0}.
C33_SetPageByOffset ==
    lastCall.op = "setPageByOffset" =>
        /\ pagination.pageCount = lastCall.before.pageCount
        /\ pagination.viewportWidth = lastCall.before.viewportWidth
        /\ lastCall.before.viewportWidth > 0 =>
              pagination.pageIndex = PageOfOffset(lastCall.a, lastCall.before.viewportWidth,
                                                  lastCall.before.pageCount)
        /\ lastCall.before.viewportWidth = 0 =>
              pagination = [pageIndex |-> 0, pageCount |-> 1, viewportWidth |-> 0]

\* An offset inside the last of several pages, not at its left edge, has just
\* moved the reader there from the first page.
C33_Witness ==
    /\ lastCall.op = "setPageByOffset"
    /\ lastCall.before.viewportWidth > 1
    /\ lastCall.before.pageCount > 2
    /\ lastCall.before.pageIndex = 0
    /\ lastCall.a > (lastCall.before.pageCount - 1) * lastCall.before.viewportWidth
    /\ lastCall.a < lastCall.before.pageCount * lastCall.before.viewportWidth
    /\ pagination.pageIndex = lastCall.before.pageCount - 1

\* C34: the step in which chapterRenderId changes leaves pageIndex 0 and the
\* reading anchor cleared and starts one invocation of preprocessChapterHtml;
\* no other step starts one, so there is one invocation per value
\* chapterRenderId has had.
C34_RenderIdResetsAndSanitizesOnce ==
    /\ [](/\ lastProcessedId = chapterRenderId
          /\ Len(runs) = chapterRenderId + 1)
    /\ [][/\ chapterRenderId' # chapterRenderId =>
                /\ pagination'.pageIndex = 0
                /\ readingAnchor' = NoAnchor
                /\ Len(runs') = Len(runs) + 1
          /\ chapterRenderId' = chapterRenderId => Len(runs') = Len(runs)]_vars

\* A new chapter is being sanitised while the previous one, several pages
\* long, is still rendered: the page is 0 and no anchor is stored.
C34_Witness ==
    /\ chapterRenderId >= 2
    /\ runs[processingToken].pc = "img"
    /\ renderedHtml.chapter # chapterHtml
    /\ renderedHtml.chapter # 0
    /\ pagination.pageCount > 1
    /\ pagination.pageIndex = 0
    /\ readingAnchor = NoAnchor

\* node lies below root in dom.
RECURSIVE Below(_, _, _)
Below(dom, root, node) ==
    /\ node # Article
    /\ node # root
    /\ (dom.parent[node] = root \/ Below(dom, root, dom.parent[node]))

\* The text nodes of dom that the path, followed from the article, leads to.
TextNodesAt(dom, path) ==
    {t \in DOMAIN dom.kind : IsText(dom, t) /\ buildNodePathFrom(dom, Article, t) = path}

\* C35: for every text node t below a root, resolveNodePath(root,
\* buildNodePath(root, t)) is t; a path captured in the content resolves to
\* the same text node when the identical content is rendered again; a path
\* that leads to no text node of the content rendered resolves to null, and
\* restoreReadingAnchor then leaves the pagination state as it was.
C35_NodePathRoundTrip ==
    /\ \A root \in (DOMAIN anchorDom.dom.kind) \cup {Article} :
          \A t \in DOMAIN anchorDom.dom.kind :
              (IsText(anchorDom.dom, t) /\ Below(anchorDom.dom, root, t)) =>
                  resolveNodePathFrom(anchorDom.dom, root,
                                      buildNodePathFrom(anchorDom.dom, root, t)) = t
    /\ anchorDom.last.called =>
          /\ anchorDom.identical => anchorDom.last.node = anchorDom.origin
          /\ TextNodesAt(anchorDom.dom, anchorDom.path) = {} =>
                /\ anchorDom.last.node = NoNode
                /\ pagination = anchorDom.last.before

\* A path of two steps, not both the same, captured and resolved after the
\* identical content was rendered again.
C35_Witness ==
    /\ anchorDom.last.called
    /\ anchorDom.rerendered
    /\ anchorDom.identical
    /\ Len(anchorDom.path) = 2
    /\ anchorDom.path[1] # anchorDom.path[2]
    /\ anchorDom.last.node = anchorDom.origin
    /\ pagination # anchorDom.last.before

\* The vertical content is shown with a page width measured before the
\* viewport took its present width.
StaleLayout ==
    /\ ~destroyed
    /\ ShouldActivate
    /\ pagination.viewportWidth > 0
    /\ pagination.viewportWidth # clientWidth

C38_NoUrlOutlivesReader ==
    /\ resources.live \subseteq UrlsOf(resources.chapterResourceUrls)
    /\ resources.destroyed => resources.live = {}

\* Some call of loadChapter has shown its page.
SomeLoadApplied == \E n \in DOMAIN loads : loads[n].st = "applied"

====
